---- MODULE Spec2Model ----
(***************************************************************************)
(* Placement / session state machine of the AR pipe viewer (js/ar-app.js). *)
(*                                                                         *)
(* The program is single threaded: every handler, and every stretch of an  *)
(* async function between two awaits, runs to completion.  One action of   *)
(* this module is one such stretch.  Lengths are integers in millimetres,  *)
(* yaw is in whole degrees, a direction is an integer vector v with its    *)
(* norm n (the unit vector is v/n).                                        *)
(***************************************************************************)
EXTENDS Integers, Sequences, FiniteSets, TLC

\* ---------------------------------------------------------------- bounds
MaxFbCalls == 2      \* startFallbackMode invocations that may be suspended at once
MaxHits == 2         \* length of the hit-test result list of one XR frame
MaxLoads == 1        \* asset files (3D model or pipe data) loaded in one run
MaxPipes == 2        \* pipes of an imported JSON file
MaxLength == 5       \* legacy excavation lengths 0..MaxLength, in mm
MaxPageLoads == 4    \* page loads in one tab
MaxScanCalls == 2    \* scanner.start() calls, scanner.stop() calls, decoded pipe codes

\* ------------------------------------------------------- option values
Null == <<>>
Some(x) == <<x>>
Get(o) == o[1]

\* ------------------------------------------------------------- inputs
\* Surface poses the platform's hit test may report (XR local space).
HitPoses == { <<0, 0, -2000>>, <<500, -100, -1000>> }
HitLists == UNION { [1..n -> HitPoses] : n \in 0..MaxHits }
\* (0, -0.5, -1.5) carried to world space by camera.matrixWorld, for the
\* head poses the XR camera may have when a select arrives.
XRDefaultPositions == { <<0, -500, -1500>> }
\* Device-orientation samples, as the forward direction that
\* updateCameraFromOrientation gives the camera for them.
Flat == [v |-> <<0, -1, 0>>, n |-> 1]
OrientationSamples ==
  { Flat,
    [v |-> <<0, -4, -3>>, n |-> 5] }
\* Camera poses the pointer rig (updateCameraPos) may produce: the camera
\* looks at the pan target on the ground.
PointerHome == [position |-> <<0, 3000, 4000>>, v |-> <<0, -3, -4>>, n |-> 5]
PointerSide == [position |-> <<1000, 4000, 3000>>, v |-> <<0, -4, -3>>, n |-> 5]
PointerViews == {PointerHome, PointerSide}
\* Pointer movements between two 'pointermove' events, in pixels.
DragDeltas == {<<0, -130>>, <<100, 130>>}
\* The horizontal orbit angle and the pan target grow without bound; the
\* model stops at these.
MaxAngleH == 100
MaxPan == 100
\* Wheel deltas and finger distances of a two-finger touch, in pixels.
WheelDeltas == {-2950, 2950}
PinchDistances == {0, 100, 500}
\* A number above every clamp bound of the rig.
Infinity == 1000000
\* A wider range of device orientations, as forward directions: straight
\* down, steeply and moderately down (also off the z axis), so shallow that
\* the ground is met beyond 30 m, level (also off the z axis), upward and
\* straight up.
ProjOrientations ==
  { Flat,
    [v |-> <<0, -4, -3>>, n |-> 5],
    [v |-> <<2, -2, -1>>, n |-> 3],
    [v |-> <<0, -80, -1599>>, n |-> 1601],
    [v |-> <<0, 0, -1>>, n |-> 1],
    [v |-> <<3, 0, -4>>, n |-> 5],
    [v |-> <<0, 3, -4>>, n |-> 5],
    [v |-> <<0, 1, 0>>, n |-> 1] }
YawInputs == { 0, 90 }
DistInputs == { 0, 500, -200 }

\* -------------------------------------------------------------- state
VARIABLES
  initPc,                 \* init(): "checking" | "awaitFallback" | "done"
  overlayShown,           \* arStartOverlay.style.display = 'flex'
  xrEnabled,              \* renderer.xr.enabled
  arPc,                   \* startARSession(): position
  arTimer,                \* setTimeout(() => startFallbackMode(), 300) pending
  xrSession,              \* the xrSession variable: "null" | "session"
  xrPlat,                 \* the platform's session: "none" | "live" | "ended"
  hitTestSource,          \* hitTestSource is non-null
  xrLoop,                 \* renderer.setAnimationLoop(onXRFrame) in effect
  reticle,                \* tracked reticle: Null or [visible, position]
  fallbackMode, fallbackAnimateRunning, fallbackControlsReady,
  animateLoops,           \* animate() loops started (requestAnimationFrame chains)
  controlSetups,          \* setupFallbackControls() / tryDeviceOrientation() runs
  fbPc,                   \* per startFallbackMode invocation: "idle" | "camReq" | "camPlay"
  fbSrc,                  \* who invoked it: "init" | "skip" | "end" | "timer"
  cameraVideo,            \* cameraVideo is non-null
  camRequests,            \* getUserMedia calls issued
  videoElems,             \* <video> elements appended to the page
  groundGrid,             \* ground grids in the scene
  fallbackReticle,        \* Null or [visible, label, position]
  sceneFbReticles,        \* fallback reticle groups in the scene
  pipePlaced,
  pipeGroup,              \* Null or [position, rotY]
  excavationGroup,        \* Null or [position, rotY]
  placedPosition,         \* Null or a position
  placedMarkers,          \* length of the placedMarkers array
  scenePipes, sceneExc, sceneMarkers,   \* objects of each kind in the scene
  assetLoads,             \* asset files loaded so far
  useDeviceOrientation,
  gyro,                   \* tryDeviceOrientation(): "none" | "button" | "asking" | "detect" | "off" | "active"
  deviceOrientation,      \* last stored sample
  camera,                 \* [position, v, n]
  isDragging, wasDragged,
  cameraAngleH, cameraAngleV,   \* setupFallbackControls(): orbit angles, in 0.01 rad
  cameraDistance,               \* orbit distance, in 0.01 units
  panTarget,                    \* <<panTargetX, panTargetZ>>, in 0.01 units
  isPanning,
  lastPinchDist,                \* finger distance of the previous touch event, in px
  fov,                          \* camera.fov, in 0.01 degree
  permRequests,           \* DeviceOrientationEvent.requestPermission calls
  isScanning,             \* QRHandler.isScanning
  scanner,                \* the Html5Qrcode object: "stopped" | "starting" | "running" | "stopping"
  scanStarts, scanStops,  \* scanner.start() and scanner.stop() calls issued
  scanResults,            \* onResult invocations with decoded pipe data
  currentData,            \* the viewer's data set: [pipes, excavation]
  codecCall,              \* history: the last codec call, [op, pipe, qr, out]
  excParams,              \* ExcavationManager.params
  excArg,                 \* the object given to the last create(), after the call
  retryFlag,              \* sessionStorage holds 'ar_cdn_retry'
  reloadTimer,            \* the 1500 ms reload timer is pending
  page,                   \* the current page load: [cause, missing, result]
  pageLoads,              \* page loads so far
  lastOp                  \* history: the handler that ran last and its outcome, for
                          \* the frame, commit, reset, asset and hand-off handlers

initVars == <<initPc>>
xrVars == <<arPc, arTimer, xrSession, xrPlat, hitTestSource, xrLoop>>
uiVars == <<overlayShown, xrEnabled>>
fbVars == <<fallbackMode, fallbackAnimateRunning, fallbackControlsReady, animateLoops,
            controlSetups, fbPc, fbSrc,
            cameraVideo, camRequests, videoElems, groundGrid>>
retVars == <<reticle, fallbackReticle, sceneFbReticles>>
placeVars == <<pipePlaced, pipeGroup, excavationGroup, placedPosition, placedMarkers,
               scenePipes, sceneExc, sceneMarkers>>
rigVars == <<cameraAngleH, cameraAngleV, cameraDistance, panTarget, isPanning,
             lastPinchDist>>
camVars == <<useDeviceOrientation, gyro, deviceOrientation, camera, isDragging,
             wasDragged, permRequests, rigVars, fov>>
assetVars == <<assetLoads>>
qrVars == <<isScanning, scanner, scanStarts, scanStops, scanResults>>
codecVars == <<currentData, codecCall>>
excVars == <<excParams, excArg>>
depVars == <<retryFlag, reloadTimer, page, pageLoads>>
libVars == <<qrVars, codecVars, excVars, depVars>>
appVars == <<initVars, uiVars, xrVars, fbVars, retVars, placeVars, assetVars, camVars>>
vars == <<appVars, libVars, lastOp>>

\* ------------------------------------------------------------ QR codec
\* JavaScript values of the codec: numbers (in tenths), strings (sequences of
\* UTF-16 code units), null, undefined and objects (member lists in insertion
\* order).
JsNum(x) == [t |-> "num", n |-> x, s |-> <<>>, m |-> <<>>]
JsStr(x) == [t |-> "str", n |-> 0, s |-> x, m |-> <<>>]
JsObj(x) == [t |-> "obj", n |-> 0, s |-> <<>>, m |-> x]
JsNull == [t |-> "null", n |-> 0, s |-> <<>>, m |-> <<>>]
JsUndefined == [t |-> "undefined", n |-> 0, s |-> <<>>, m |-> <<>>]
\* Outcome of a call that ended in an exception.
Threw == [t |-> "throw", n |-> 0, s |-> <<>>, m |-> <<>>]

\* The string literals of pipe-data.js and viewer3d-app.js, as code units.
Lit ==
  [id |-> <<105, 100>>, type |-> <<116, 121, 112, 101>>,
   diameter |-> <<100, 105, 97, 109, 101, 116, 101, 114>>,
   length |-> <<108, 101, 110, 103, 116, 104>>, depth |-> <<100, 101, 112, 116, 104>>,
   slope |-> <<115, 108, 111, 112, 101>>,
   material |-> <<109, 97, 116, 101, 114, 105, 97, 108>>,
   excavation |-> <<101, 120, 99, 97, 118, 97, 116, 105, 111, 110>>,
   color |-> <<99, 111, 108, 111, 114>>, label |-> <<108, 97, 98, 101, 108>>,
   width |-> <<119, 105, 100, 116, 104>>,
   v |-> <<118>>, t |-> <<116>>, d |-> <<100>>, l |-> <<108>>, dp |-> <<100, 112>>,
   sl |-> <<115, 108>>, mt |-> <<109, 116>>, ex |-> <<101, 120>>,
   s |-> <<115>>, m |-> <<109>>,
   service |-> <<115, 101, 114, 118, 105, 99, 101>>, main |-> <<109, 97, 105, 110>>,
   SEWER |-> <<83, 69, 87, 69, 82, 58>>,
   null |-> <<110, 117, 108, 108>>,
   undefined |-> <<117, 110, 100, 101, 102, 105, 110, 101, 100>>,
   serviceLabel |-> <<21462, 20184, 31649>>, mainLabel |-> <<26412, 31649>>,
   P |-> <<80, 45>>]

\* obj.key: the member's value, undefined when there is none; the property of
\* a number or a string that is not its own is undefined.  (Reading a property
\* of null or undefined throws: the callers test for it.)
get(obj, key) ==
  LET at == {i \in 1..Len(obj.m) : obj.m[i][1] = key}
  IN IF at = {} THEN JsUndefined
     ELSE obj.m[CHOOSE i \in at : \A j \in at : j <= i][2]

\* Number to text: decimal digits of a non-negative number given in tenths.
RECURSIVE digits(_)
digits(x) == IF x < 10 THEN <<48 + x>> ELSE digits(x \div 10) \o <<48 + (x % 10)>>

numberText(x) ==
  IF x % 10 = 0 THEN digits(x \div 10) ELSE digits(x \div 10) \o <<46, 48 + (x % 10)>>

\* JSON.stringify(value) for the values above.  Members whose value is
\* undefined are left out; characters outside ASCII are written as they are.
\* (The strings of the model hold no quote, backslash or control character,
\* so there is nothing to escape.)
RECURSIVE stringify(_), stringifyMembers(_, _)
stringify(value) ==
  CASE value.t = "num" -> numberText(value.n)
    [] value.t = "str" -> <<34>> \o value.s \o <<34>>
    [] value.t = "obj" -> <<123>> \o stringifyMembers(value.m, TRUE) \o <<125>>
    [] OTHER -> Lit.null

stringifyMembers(members, first) ==
  IF members = <<>> THEN <<>>
  ELSE IF Head(members)[2].t = "undefined" THEN stringifyMembers(Tail(members), first)
  ELSE (IF first THEN <<>> ELSE <<44>>)
         \o <<34>> \o Head(members)[1] \o <<34, 58>> \o stringify(Head(members)[2])
         \o stringifyMembers(Tail(members), FALSE)

\* JSON.parse(text) for objects, strings without escapes, null and
\* non-negative numbers with at most one decimal, without white space.  Each
\* parser returns [ok, v, rest]; ok = FALSE is the SyntaxError.
ParseFail == [ok |-> FALSE, v |-> JsUndefined, rest |-> <<>>]

RECURSIVE parseString(_, _)
parseString(text, acc) ==
  IF text = <<>> THEN ParseFail
  ELSE IF Head(text) = 34 THEN [ok |-> TRUE, v |-> JsStr(acc), rest |-> Tail(text)]
  ELSE parseString(Tail(text), Append(acc, Head(text)))

RECURSIVE parseNumber(_, _)
parseNumber(text, acc) ==
  IF text # <<>> /\ Head(text) \in 48..57
  THEN parseNumber(Tail(text), 10 * acc + (Head(text) - 48))
  ELSE IF Len(text) >= 2 /\ Head(text) = 46 /\ text[2] \in 48..57
       THEN [ok |-> TRUE, v |-> JsNum(10 * acc + (text[2] - 48)), rest |-> Tail(Tail(text))]
       ELSE [ok |-> TRUE, v |-> JsNum(10 * acc), rest |-> text]

RECURSIVE parseValue(_), parseMembers(_, _)
parseValue(text) ==
  IF text = <<>> THEN ParseFail
  ELSE IF Head(text) = 34 THEN parseString(Tail(text), <<>>)
  ELSE IF Head(text) \in 48..57 THEN parseNumber(text, 0)
  ELSE IF Len(text) >= 4 /\ SubSeq(text, 1, 4) = Lit.null
       THEN [ok |-> TRUE, v |-> JsNull, rest |-> SubSeq(text, 5, Len(text))]
  ELSE IF Head(text) = 123
       THEN IF Len(text) >= 2 /\ text[2] = 125
            THEN [ok |-> TRUE, v |-> JsObj(<<>>), rest |-> Tail(Tail(text))]
            ELSE parseMembers(Tail(text), <<>>)
  ELSE ParseFail

parseMembers(text, acc) ==
  LET key == IF text # <<>> /\ Head(text) = 34 THEN parseString(Tail(text), <<>>)
             ELSE ParseFail
      val == parseValue(Tail(key.rest))
      members == Append(acc, <<key.v.s, val.v>>)
  IN IF ~key.ok \/ key.rest = <<>> \/ Head(key.rest) # 58 THEN ParseFail
     ELSE IF ~val.ok \/ val.rest = <<>> THEN ParseFail
     ELSE IF Head(val.rest) = 44 THEN parseMembers(Tail(val.rest), members)
     ELSE IF Head(val.rest) = 125
          THEN [ok |-> TRUE, v |-> JsObj(members), rest |-> Tail(val.rest)]
     ELSE ParseFail

\* The base64 alphabet: the 6-bit value of a character (-1 for a character
\* outside the alphabet).
b64index(c) ==
  IF c \in 65..90 THEN c - 65
  ELSE IF c \in 97..122 THEN c - 97 + 26
  ELSE IF c \in 48..57 THEN c - 48 + 52
  ELSE IF c = 43 THEN 62
  ELSE IF c = 47 THEN 63 ELSE -1

RECURSIVE b64encode(_)
b64encode(bytes) ==
  IF bytes = <<>> THEN <<>>
  ELSE LET b64char(i) == IF i < 26 THEN 65 + i
                         ELSE IF i < 52 THEN 97 + (i - 26)
                         ELSE IF i < 62 THEN 48 + (i - 52)
                         ELSE IF i = 62 THEN 43 ELSE 47
           a == bytes[1]
           b == IF Len(bytes) >= 2 THEN bytes[2] ELSE 0
           c == IF Len(bytes) >= 3 THEN bytes[3] ELSE 0
       IN <<b64char(a \div 4), b64char((a % 4) * 16 + b \div 16)>>
          \o (IF Len(bytes) >= 2 THEN <<b64char((b % 16) * 4 + c \div 64)>> ELSE <<61>>)
          \o (IF Len(bytes) >= 3 THEN <<b64char(c % 64)>> ELSE <<61>>)
          \o (IF Len(bytes) > 3 THEN b64encode(SubSeq(bytes, 4, Len(bytes))) ELSE <<>>)

RECURSIVE b64decode(_)
b64decode(chars) ==
  IF Len(chars) < 2 THEN <<>>
  ELSE LET a == b64index(chars[1])
           b == b64index(chars[2])
           c == IF Len(chars) >= 3 THEN b64index(chars[3]) ELSE 0
           d == IF Len(chars) >= 4 THEN b64index(chars[4]) ELSE 0
       IN <<a * 4 + b \div 16>>
          \o (IF Len(chars) >= 3 THEN <<(b % 16) * 16 + c \div 4>> ELSE <<>>)
          \o (IF Len(chars) >= 4 THEN <<(c % 4) * 64 + d>> ELSE <<>>)
          \o (IF Len(chars) > 4 THEN b64decode(SubSeq(chars, 5, Len(chars))) ELSE <<>>)

\* btoa(text): InvalidCharacterError for a code unit above 0xFF.
btoa(text) ==
  IF \E i \in 1..Len(text) : text[i] > 255 THEN Threw ELSE JsStr(b64encode(text))

\* atob(text), the forgiving base64 decode: white space is dropped, one or two
\* '=' of padding are dropped from a text whose length is a multiple of four,
\* and a remaining length of 1 mod 4 or a character outside the alphabet is
\* an InvalidCharacterError.
atob(text) ==
  LET IsData(c) == c \notin {9, 10, 12, 13, 32}
      packed == SelectSeq(text, IsData)
      n == Len(packed)
      pad == IF n % 4 # 0 \/ n = 0 \/ packed[n] # 61 THEN 0
             ELSE IF packed[n - 1] = 61 THEN 2 ELSE 1
      chars == SubSeq(packed, 1, n - pad)
  IN IF Len(chars) % 4 = 1 \/ \E i \in 1..Len(chars) : b64index(chars[i]) = -1
     THEN Threw
     ELSE JsStr(b64decode(chars))

\* QRDataCodec.encode(pipeId, pipeData); pipeData is [pipes, excavation].
encode(pipeId, pipeData) ==
  LET found == {i \in 1..Len(pipeData.pipes) : get(pipeData.pipes[i], Lit.id) = pipeId}
      pipe == pipeData.pipes[CHOOSE i \in found : \A j \in found : i <= j]
      data == JsObj(<< <<Lit.v, JsNum(10)>>,
                       <<Lit.id, get(pipe, Lit.id)>>,
                       <<Lit.t, IF get(pipe, Lit.type) = JsStr(Lit.service)
                                THEN JsStr(Lit.s) ELSE JsStr(Lit.m)>>,
                       <<Lit.d, get(pipe, Lit.diameter)>>,
                       <<Lit.l, get(pipe, Lit.length)>>,
                       <<Lit.dp, get(pipe, Lit.depth)>>,
                       <<Lit.sl, get(pipe, Lit.slope)>>,
                       <<Lit.mt, get(pipe, Lit.material)>>,
                       <<Lit.ex, pipeData.excavation>> >>)
      b64 == btoa(stringify(data))
  IN IF found = {} THEN JsNull
     ELSE IF b64 = Threw THEN Threw
     ELSE JsStr(Lit.SEWER \o b64.s)

\* QRDataCodec.decode(qrString) of a string.
decode(qrString) ==
  LET json == atob(SubSeq(qrString, 7, Len(qrString)))
      parsed == parseValue(json.s)
      data == IF parsed.ok /\ parsed.rest = <<>> THEN parsed.v ELSE Threw   \* JSON.parse(json)
      isService == get(data, Lit.t) = JsStr(Lit.s)
      templateText(value) ==            \* `${value}` of the template literal
        CASE value.t = "str" -> value.s
          [] value.t = "num" -> numberText(value.n)
          [] value.t = "null" -> Lit.null
          [] OTHER -> Lit.undefined
  IN IF Len(qrString) < 6 \/ SubSeq(qrString, 1, 6) # Lit.SEWER THEN JsNull
     ELSE IF json = Threw \/ data = Threw \/ data.t \in {"null", "undefined"} THEN JsNull
     ELSE JsObj(<< <<Lit.id, get(data, Lit.id)>>,
                   <<Lit.type, JsStr(IF isService THEN Lit.service ELSE Lit.main)>>,
                   <<Lit.diameter, get(data, Lit.d)>>,
                   <<Lit.length, get(data, Lit.l)>>,
                   <<Lit.depth, get(data, Lit.dp)>>,
                   <<Lit.slope, get(data, Lit.sl)>>,
                   <<Lit.material, get(data, Lit.mt)>>,
                   <<Lit.excavation, get(data, Lit.ex)>>,
                   <<Lit.color, JsNum(IF isService THEN 52275110 ELSE 167471090)>>,
                   <<Lit.label, JsStr((IF isService THEN Lit.serviceLabel ELSE Lit.mainLabel)
                                        \o <<32>> \o templateText(get(data, Lit.id)))>> >>)

\* A pipe object with the members encode reads (label and color are left out).
Pipe(id, type, diameter, length, depth, slope, material) ==
  JsObj(<< <<Lit.id, id>>, <<Lit.type, type>>, <<Lit.diameter, JsNum(diameter)>>,
           <<Lit.length, JsNum(length)>>, <<Lit.depth, JsNum(depth)>>,
           <<Lit.slope, JsNum(slope)>>, <<Lit.material, JsStr(material)>> >>)

Excavation(width, depth, length) ==
  JsObj(<< <<Lit.width, JsNum(width)>>, <<Lit.depth, JsNum(depth)>>,
           <<Lit.length, JsNum(length)>> >>)

\* SAMPLE_PIPE_DATA: pipes L-001, L-002 and M-001.
SamplePipeData ==
  [pipes |-> << Pipe(JsStr(<<76, 45, 48, 48, 49>>), JsStr(Lit.service),
                     1500, 50000, 12000, 15, <<86, 85>>),
                Pipe(JsStr(<<76, 45, 48, 48, 50>>), JsStr(Lit.service),
                     1500, 40000, 10000, 20, <<86, 85>>),
                Pipe(JsStr(<<77, 45, 48, 48, 49>>), JsStr(Lit.main),
                     2500, 200000, 20000, 3, <<72, 80>>) >>,
   excavation |-> Excavation(8000, 15000, 60000)]

\* Imported files: up to MaxPipes pipes, with or without excavation
\* parameters.  The pipes: a service pipe "L" of VU, a main pipe with
\* the same id, a main pipe "M" whose material is written in Japanese
\* (hume pipe), a pipe of another type, and a pipe without id and type.
JsonFiles ==
  LET PipeInputs ==
        { Pipe(JsStr(<<76>>), JsStr(Lit.service), 1500, 50000, 12000, 15, <<86, 85>>),
          Pipe(JsStr(<<76>>), JsStr(Lit.main), 2500, 200000, 20000, 3, <<72, 80>>),
          Pipe(JsStr(<<77>>), JsStr(Lit.main), 2500, 200000, 20000, 3,
               <<12498, 12517, 12540, 12512, 31649>>),
          Pipe(JsStr(<<77>>), JsStr(<<109, 97, 110, 104, 111, 108, 101>>),
               9000, 20000, 22000, 0, <<72, 80>>),
          JsObj(<< <<Lit.diameter, JsNum(1000)>> >>) }
  IN [pipes : UNION {[1..n -> PipeInputs] : n \in 0..MaxPipes},
      excavation : {JsUndefined, Excavation(6000, 10000, 40000)}]

\* Scanned texts that are not codes of this codec: no prefix; a prefix in
\* lower case; a payload that is not base64 (a character outside the
\* alphabet, a length of 1 mod 4); an empty payload; base64 of text that is not
\* JSON ("abc", and a truncated object).
ForeignStrings ==
  { <<72, 69, 76, 76, 79>>,
    <<115, 101, 119, 101, 114, 58>> \o b64encode(<<123, 125>>),
    Lit.SEWER \o <<33, 33>>,
    Lit.SEWER \o <<81, 85, 74, 68, 81>>,
    Lit.SEWER,
    Lit.SEWER \o b64encode(<<97, 98, 99>>),
    Lit.SEWER \o b64encode(<<123, 34, 105, 100, 34, 58>>) }

NoCall == [op |-> "none", pipe |-> JsUndefined, qr |-> JsUndefined, out |-> JsUndefined]

Slots == 1..MaxFbCalls
Other == <<"other", "">>

\* State after the module's declarations ran and init() reached its first await.
Init ==
  /\ initPc = "checking"
  /\ overlayShown = FALSE
  /\ xrEnabled = FALSE
  /\ arPc = "idle"
  /\ arTimer = FALSE
  /\ xrSession = "null"
  /\ xrPlat = "none"
  /\ hitTestSource = FALSE
  /\ xrLoop = FALSE
  /\ reticle = Null
  /\ fallbackMode = FALSE
  /\ fallbackAnimateRunning = FALSE
  /\ fallbackControlsReady = FALSE
  /\ animateLoops = 0
  /\ controlSetups = 0
  /\ fbPc = [i \in Slots |-> "idle"]
  /\ fbSrc = [i \in Slots |-> "none"]
  /\ cameraVideo = FALSE
  /\ camRequests = 0
  /\ videoElems = 0
  /\ groundGrid = 0
  /\ fallbackReticle = Null
  /\ sceneFbReticles = 0
  /\ pipePlaced = FALSE
  /\ pipeGroup = Null
  /\ excavationGroup = Null
  /\ placedPosition = Null
  /\ placedMarkers = 0
  /\ scenePipes = 0
  /\ sceneExc = 0
  /\ sceneMarkers = 0
  /\ assetLoads = 0
  /\ useDeviceOrientation = FALSE
  /\ gyro = "none"
  /\ deviceOrientation = Flat
  /\ camera = [position |-> <<0, 0, 0>>, v |-> <<0, 0, -1>>, n |-> 1]
  /\ isDragging = FALSE
  /\ wasDragged = FALSE
  /\ cameraAngleH = 0
  /\ cameraAngleV = 50
  /\ cameraDistance = 500
  /\ panTarget = <<0, 0>>
  /\ isPanning = FALSE
  /\ lastPinchDist = 0
  /\ fov = 7000
  /\ permRequests = 0
  /\ isScanning = FALSE
  /\ scanner = "stopped"
  /\ scanStarts = 0
  /\ scanStops = 0
  /\ scanResults = 0
  /\ currentData = SamplePipeData
  /\ codecCall = NoCall
  /\ excParams = [width |-> 800, depth |-> 1500, lengthFront |-> 3000, lengthBack |-> 3000]
  /\ excArg = [width |-> 800, depth |-> 1500, length |-> Null, lengthFront |-> Null,
               lengthBack |-> Null]
  /\ retryFlag = FALSE
  /\ reloadTimer = FALSE
  /\ page = [cause |-> "open", missing |-> {}, result |-> "init"]
  /\ pageLoads = 1
  /\ lastOp = Other

\* ------------------------------------------------------- pure helpers
InScene(o) == IF o # Null THEN 1 ELSE 0

\* createFallbackReticle(): a visible group with its label, at (0, 0, -3).
createFallbackReticle == [visible |-> TRUE, label |-> TRUE, position |-> <<0, 0, -3000>>]

\* createARReticle(): an invisible group (matrix = identity).
createARReticle == [visible |-> FALSE, position |-> <<0, 0, 0>>]

\* camera.position.set(0, 1.6, 0); camera.lookAt(0, 0, -3)
StartView == [position |-> <<0, 1600, 0>>, v |-> <<0, -8, -15>>, n |-> 17]

\* Mutant of updateFallbackReticle: the ray parameter is the camera height,
\* not the height divided by the downward component of the direction.
updateFallbackReticleUnscaled(cam, pos) ==
  LET p == cam.position
      v == cam.v
  IN IF v[2] * 100 < -cam.n
     THEN LET gx == p[1] + (v[1] * p[2]) \div cam.n
              gz == p[3] + (v[3] * p[2]) \div cam.n
              d2 == (gx - p[1]) * (gx - p[1]) + p[2] * p[2] + (gz - p[3]) * (gz - p[3])
          IN IF d2 < 30000 * 30000 THEN <<gx, 0, gz>> ELSE pos
     ELSE <<p[1] + (v[1] * 3000) \div cam.n, 0, p[3] + (v[3] * 3000) \div cam.n>>

\* Mutant of updateFallbackReticle: the 30 m cutoff is missing.
updateFallbackReticleNoCutoff(cam, pos) ==
  LET p == cam.position
      v == cam.v
  IN IF v[2] * 100 < -cam.n
     THEN LET gx == p[1] + (v[1] * p[2]) \div (-v[2])
              gz == p[3] + (v[3] * p[2]) \div (-v[2])
          IN <<gx, 0, gz>>
     ELSE <<p[1] + (v[1] * 3000) \div cam.n, 0, p[3] + (v[3] * 3000) \div cam.n>>

\* updateFallbackReticle(): where the camera's forward ray meets the ground
\* plane; pos is the reticle position of the prior frame.
updateFallbackReticle(cam, pos) ==
  LET p == cam.position
      v == cam.v
  IN IF v[2] * 100 < -cam.n
     THEN LET gx == p[1] + (v[1] * p[2]) \div (-v[2])
              gz == p[3] + (v[3] * p[2]) \div (-v[2])
              d2 == (gx - p[1]) * (gx - p[1]) + p[2] * p[2] + (gz - p[3]) * (gz - p[3])
          IN IF d2 < 30000 * 30000 THEN <<gx, 0, gz>> ELSE pos
     ELSE <<p[1] + (v[1] * 3000) \div cam.n, 0, p[3] + (v[3] * 3000) \div cam.n>>

\* The modal start overlay covers the page while it is displayed: the start
\* and skip buttons are on it, the rest of the UI is under it.
StartButtonsUsable == initPc = "done" /\ overlayShown
UIReady == initPc = "done" /\ ~overlayShown

\* ------------------------------------------------------ fallback mode
\* Mutant of FallbackBody: the render loop is started without testing
\* fallbackAnimateRunning.
FallbackBodyLoopUnguarded(src) ==
  /\ groundGrid' = groundGrid - (IF groundGrid > 0 THEN 1 ELSE 0) + 1
  /\ fallbackReticle' = Some([createFallbackReticle EXCEPT !.visible = ~pipePlaced])
  /\ sceneFbReticles' = sceneFbReticles - InScene(fallbackReticle) + 1
  /\ IF ~fallbackControlsReady
     THEN /\ camera' = IF useDeviceOrientation THEN StartView ELSE PointerHome
          /\ \E needsPermission \in BOOLEAN :
               gyro' = IF needsPermission THEN "button" ELSE "detect"
     ELSE /\ camera' = StartView
          /\ UNCHANGED gyro
  /\ fallbackControlsReady' = TRUE
  /\ controlSetups' = IF ~fallbackControlsReady THEN controlSetups + 1 ELSE controlSetups
  /\ fallbackAnimateRunning' = TRUE
  /\ animateLoops' = animateLoops + 1
  /\ initPc' = IF src = "init" THEN "done" ELSE initPc

\* startFallbackMode(), from the return of `await startCameraBackground()`
\* to its end.
FallbackBody(src) ==
  /\ groundGrid' = groundGrid - (IF groundGrid > 0 THEN 1 ELSE 0) + 1
  /\ fallbackReticle' = Some([createFallbackReticle EXCEPT !.visible = ~pipePlaced])
  /\ sceneFbReticles' = sceneFbReticles - InScene(fallbackReticle) + 1
  /\ IF ~fallbackControlsReady
     THEN /\ camera' = IF useDeviceOrientation THEN StartView ELSE PointerHome
          /\ \E needsPermission \in BOOLEAN :
               gyro' = IF needsPermission THEN "button" ELSE "detect"
     ELSE /\ camera' = StartView
          /\ UNCHANGED gyro
  /\ fallbackControlsReady' = TRUE
  /\ controlSetups' = IF ~fallbackControlsReady THEN controlSetups + 1 ELSE controlSetups
  /\ fallbackAnimateRunning' = TRUE
  /\ animateLoops' = IF ~fallbackAnimateRunning THEN animateLoops + 1 ELSE animateLoops
  /\ initPc' = IF src = "init" THEN "done" ELSE initPc

FreeSlot(i) == fbPc[i] = "idle" /\ \A j \in Slots : j < i => fbPc[j] # "idle"

\* startFallbackMode(), from its call to its first suspension (or to its end
\* when the camera is already running).  It owns fbVars, uiVars, initPc,
\* fallbackReticle, sceneFbReticles, camera and gyro.
startFallbackMode(src) ==
  IF fallbackMode /\ fallbackAnimateRunning
  THEN /\ UNCHANGED <<fbVars, uiVars, fallbackReticle, sceneFbReticles, camera, gyro>>
       /\ initPc' = IF src = "init" THEN "done" ELSE initPc
  ELSE /\ fallbackMode' = TRUE
       /\ overlayShown' = FALSE
       /\ xrEnabled' = FALSE
       /\ IF cameraVideo
          THEN /\ FallbackBody(src)
               /\ UNCHANGED <<fbPc, fbSrc, cameraVideo, camRequests, videoElems>>
          ELSE /\ \E i \in Slots :
                    /\ FreeSlot(i)
                    /\ fbPc' = [fbPc EXCEPT ![i] = "camReq"]
                    /\ fbSrc' = [fbSrc EXCEPT ![i] = src]
               /\ camRequests' = camRequests + 1
               /\ initPc' = IF src = "init" THEN "awaitFallback" ELSE initPc
               /\ UNCHANGED <<fallbackAnimateRunning, fallbackControlsReady, animateLoops,
                              controlSetups, cameraVideo,
                              videoElems, groundGrid, fallbackReticle, sceneFbReticles,
                              camera, gyro>>

\* getUserMedia resolves: the <video> element is created and appended, and
\* startCameraBackground suspends again on cameraVideo.play().
CameraGranted(i) ==
  /\ fbPc[i] = "camReq"
  /\ cameraVideo' = TRUE
  /\ videoElems' = videoElems + 1
  /\ fbPc' = [fbPc EXCEPT ![i] = "camPlay"]
  /\ lastOp' = Other
  /\ UNCHANGED <<initVars, uiVars, xrVars, fallbackMode, fallbackAnimateRunning,
                 fallbackControlsReady, animateLoops, controlSetups, fbSrc, camRequests, groundGrid, retVars,
                 placeVars, assetVars, camVars, libVars>>

\* The rest of a suspended startFallbackMode runs.
ResumeFallback(i) ==
  /\ FallbackBody(fbSrc[i])
  /\ fbPc' = [fbPc EXCEPT ![i] = "idle"]
  /\ fbSrc' = [fbSrc EXCEPT ![i] = "none"]
  /\ lastOp' = <<"startFallbackMode", fbSrc[i]>>
  /\ UNCHANGED <<uiVars, xrVars, fallbackMode, camRequests, reticle, placeVars,
                 assetVars, useDeviceOrientation, deviceOrientation, isDragging,
                 wasDragged, permRequests, rigVars, fov, libVars>>

\* Mutant of CameraRejected: the rejection is not caught and ends the
\* suspended startFallbackMode.
CameraRejectedAborts(i) ==
  /\ fbPc[i] = "camReq"
  /\ fbPc' = [fbPc EXCEPT ![i] = "idle"]
  /\ fbSrc' = [fbSrc EXCEPT ![i] = "none"]
  /\ initPc' = IF fbSrc[i] = "init" THEN "done" ELSE initPc
  /\ lastOp' = <<"startFallbackMode", fbSrc[i]>>
  /\ UNCHANGED <<uiVars, xrVars, fallbackMode, fallbackAnimateRunning,
                 fallbackControlsReady, animateLoops, controlSetups, cameraVideo,
                 camRequests, videoElems, groundGrid, retVars, placeVars, assetVars,
                 camVars, libVars>>

\* getUserMedia rejects: the catch leaves cameraVideo null.
CameraRejected(i) ==
  /\ fbPc[i] = "camReq"
  /\ ResumeFallback(i)
  /\ UNCHANGED <<cameraVideo, videoElems>>

\* cameraVideo.play() resolves or rejects.
CameraPlaySettled(i) ==
  /\ fbPc[i] = "camPlay"
  /\ ResumeFallback(i)
  /\ UNCHANGED <<cameraVideo, videoElems>>

\* ------------------------------------------------------------- init()
\* navigator.xr.isSessionSupported settles (or navigator.xr is missing).
InitSupportChecked ==
  /\ initPc = "checking"
  /\ \E supported \in BOOLEAN :
       IF supported
       THEN /\ xrEnabled' = TRUE
            /\ overlayShown' = TRUE
            /\ initPc' = "done"
            /\ lastOp' = Other
            /\ UNCHANGED <<fbVars, fallbackReticle, sceneFbReticles, camera, gyro, rigVars, fov>>
       ELSE /\ startFallbackMode("init")
            /\ lastOp' = Other
  /\ UNCHANGED <<xrVars, reticle, placeVars, assetVars, useDeviceOrientation,
                 deviceOrientation, isDragging, wasDragged, permRequests, rigVars, fov, libVars>>

\* --------------------------------------------------- startARSession()
\* Mutant of ARCatch: the catch forgets to schedule startFallbackMode.
ARCatchNoTimer ==
  /\ arPc' = "failed"
  /\ xrEnabled' = FALSE
  /\ arTimer' = arTimer

\* The catch of startARSession (lines 211-216).
ARCatch ==
  /\ arPc' = "failed"
  /\ xrEnabled' = FALSE
  /\ arTimer' = TRUE

\* An await of startARSession on the session can resolve only while the
\* platform's session is live; on an ended session it rejects.
Outcomes == IF xrPlat = "live" THEN BOOLEAN ELSE {FALSE}

\* Mutant of ClickStartAR: startARSession leaves the start overlay displayed.
ClickStartARKeepsOverlay ==
  /\ StartButtonsUsable
  /\ arPc = "idle"
  /\ arPc' = "reqSession"
  /\ lastOp' = Other
  /\ UNCHANGED <<initVars, uiVars, arTimer, xrSession, xrPlat, hitTestSource, xrLoop,
                 fbVars, retVars, placeVars, assetVars, camVars, libVars>>

\* btnStartAR click: startARSession() up to `await requestSession(...)`.
ClickStartAR ==
  /\ StartButtonsUsable
  /\ arPc = "idle"
  /\ overlayShown' = FALSE
  /\ arPc' = "reqSession"
  /\ lastOp' = Other
  /\ UNCHANGED <<initVars, xrEnabled, arTimer, xrSession, xrPlat, hitTestSource, xrLoop,
                 fbVars, retVars, placeVars, assetVars, camVars, libVars>>

\* navigator.xr.requestSession settles.
RequestSessionSettled ==
  /\ arPc = "reqSession"
  /\ \E ok \in BOOLEAN :
       IF ok
       THEN /\ xrSession' = "session"
            /\ xrPlat' = "live"
            /\ arPc' = "setSession"
            /\ lastOp' = Other
            /\ UNCHANGED <<xrEnabled, arTimer>>
       ELSE /\ ARCatch
            /\ lastOp' = Other
            /\ UNCHANGED <<xrSession, xrPlat>>
  /\ UNCHANGED <<initVars, overlayShown, hitTestSource, xrLoop, fbVars, retVars,
                 placeVars, assetVars, camVars, libVars>>

\* renderer.xr.setSession(xrSession) settles.
SetSessionSettled ==
  /\ arPc = "setSession"
  /\ \E ok \in Outcomes :
       IF ok
       THEN /\ arPc' = "reqRefSpace"
            /\ lastOp' = Other
            /\ UNCHANGED <<xrEnabled, arTimer>>
       ELSE /\ ARCatch
            /\ lastOp' = Other
  /\ UNCHANGED <<initVars, overlayShown, xrSession, xrPlat, hitTestSource, xrLoop, fbVars,
                 retVars, placeVars, assetVars, camVars, libVars>>

\* xrSession.requestReferenceSpace('local') settles.
RefSpaceSettled ==
  /\ arPc = "reqRefSpace"
  /\ \E ok \in Outcomes :
       IF ok
       THEN /\ arPc' = "reqViewer"
            /\ lastOp' = Other
            /\ UNCHANGED <<xrEnabled, arTimer>>
       ELSE /\ ARCatch
            /\ lastOp' = Other
  /\ UNCHANGED <<initVars, overlayShown, xrSession, xrPlat, hitTestSource, xrLoop, fbVars,
                 retVars, placeVars, assetVars, camVars, libVars>>

\* startARSession from the end of the inner try/catch to its last statement
\* (lines 188-210): the reticle, the frame loop, the select and end listeners.
ARFinish(hit) ==
  /\ hitTestSource' = hit
  /\ reticle' = Some(createARReticle)
  /\ xrLoop' = TRUE
  /\ arPc' = "running"

\* requestReferenceSpace('viewer') settles; a rejection is caught by the
\* inner catch (hit test not available) and the setup goes on.
ViewerSpaceSettled ==
  /\ arPc = "reqViewer"
  /\ \E ok \in Outcomes :
       IF ok
       THEN /\ arPc' = "reqHitTest"
            /\ lastOp' = Other
            /\ UNCHANGED <<hitTestSource, reticle, xrLoop>>
       ELSE /\ ARFinish(FALSE)
            /\ lastOp' = Other
  /\ UNCHANGED <<initVars, uiVars, arTimer, xrSession, xrPlat, fbVars, fallbackReticle,
                 sceneFbReticles, placeVars, assetVars, camVars, libVars>>

\* requestHitTestSource settles; a rejection is caught by the inner catch.
HitTestSourceSettled ==
  /\ arPc = "reqHitTest"
  /\ \E ok \in Outcomes :
       /\ ARFinish(ok)
       /\ lastOp' = Other
  /\ UNCHANGED <<initVars, uiVars, arTimer, xrSession, xrPlat, fbVars, fallbackReticle,
                 sceneFbReticles, placeVars, assetVars, camVars, libVars>>

\* The 300 ms timer of the catch fires: startFallbackMode().
ARTimerFires ==
  /\ arTimer
  /\ arTimer' = FALSE
  /\ startFallbackMode("timer")
  /\ lastOp' = Other
  /\ UNCHANGED <<arPc, xrSession, xrPlat, hitTestSource, xrLoop, reticle, placeVars,
                 assetVars, useDeviceOrientation, deviceOrientation, isDragging,
                 wasDragged, permRequests, rigVars, fov, libVars>>

\* btnSkipAR click.
ClickSkipAR ==
  /\ StartButtonsUsable
  /\ startFallbackMode("skip")
  /\ lastOp' = Other
  /\ UNCHANGED <<xrVars, reticle, placeVars, assetVars, useDeviceOrientation,
                 deviceOrientation, isDragging, wasDragged, permRequests, rigVars, fov, libVars>>

\* Mutant of onSessionEnd: the hand-off also clears the placement, as a reset
\* would.
onSessionEndResets ==
  /\ xrPlat = "live"
  /\ arPc = "running"
  /\ xrPlat' = "ended"
  /\ xrSession' = "null"
  /\ hitTestSource' = FALSE
  /\ xrLoop' = FALSE
  /\ IF ~fallbackMode
     THEN startFallbackMode("end")
     ELSE /\ xrEnabled' = FALSE
          /\ UNCHANGED <<initVars, overlayShown, fbVars, fallbackReticle, sceneFbReticles,
                         camera, gyro>>
  /\ pipePlaced' = FALSE
  /\ pipeGroup' = Null
  /\ excavationGroup' = Null
  /\ placedPosition' = Null
  /\ scenePipes' = 0
  /\ sceneExc' = 0
  /\ lastOp' = <<"sessionEnd", "handled">>
  /\ UNCHANGED <<arPc, arTimer, reticle, placedMarkers, sceneMarkers, assetVars,
                 useDeviceOrientation, deviceOrientation, isDragging, wasDragged,
                 permRequests, rigVars, fov, libVars>>

\* Mutant of onSessionEnd: the handler does not clear the XR animation loop
\* before it starts the fallback backend.
onSessionEndKeepsLoop ==
  /\ xrPlat = "live"
  /\ arPc = "running"
  /\ xrPlat' = "ended"
  /\ xrSession' = "null"
  /\ hitTestSource' = FALSE
  /\ xrLoop' = xrLoop
  /\ IF ~fallbackMode
     THEN startFallbackMode("end")
     ELSE /\ xrEnabled' = FALSE
          /\ UNCHANGED <<initVars, overlayShown, fbVars, fallbackReticle, sceneFbReticles,
                         camera, gyro>>
  /\ lastOp' = <<"sessionEnd", "handled">>
  /\ UNCHANGED <<arPc, arTimer, reticle, placeVars, assetVars, useDeviceOrientation,
                 deviceOrientation, isDragging, wasDragged, permRequests, rigVars, fov, libVars>>

\* The session's 'end' event with the listener of line 199 attached.
onSessionEnd ==
  /\ xrPlat = "live"
  /\ arPc = "running"
  /\ xrPlat' = "ended"
  /\ xrSession' = "null"
  /\ hitTestSource' = FALSE
  /\ xrLoop' = FALSE
  /\ IF ~fallbackMode
     THEN startFallbackMode("end")
     ELSE /\ xrEnabled' = FALSE
          /\ UNCHANGED <<initVars, overlayShown, fbVars, fallbackReticle, sceneFbReticles,
                         camera, gyro>>
  /\ lastOp' = <<"sessionEnd", "handled">>
  /\ UNCHANGED <<arPc, arTimer, reticle, placeVars, assetVars, useDeviceOrientation,
                 deviceOrientation, isDragging, wasDragged, permRequests, rigVars, fov, libVars>>

\* The session ends while startARSession has not yet attached its 'end'
\* listener (it is attached last, after the awaits of lines 174-183), or after
\* the catch ran: no handler of the program runs.
SessionEndsUnheard ==
  /\ xrPlat = "live"
  /\ arPc # "running"
  /\ xrPlat' = "ended"
  /\ lastOp' = <<"sessionEnd", "unheard">>
  /\ UNCHANGED <<initVars, uiVars, arPc, arTimer, xrSession, hitTestSource, xrLoop, fbVars,
                 retVars, placeVars, assetVars, camVars, libVars>>

\* ---------------------------------------------------------- placement
\* placePipe(position).  The asset put in pipeGroup (the loaded 3D model or the
\* pipe assembly) is opaque here: only the group's pose is state.  It owns
\* placeVars and retVars.
placePipe(position) ==
  /\ pipeGroup' = Some([position |-> position, rotY |-> 0])
  /\ scenePipes' = scenePipes - InScene(pipeGroup) + 1
  /\ excavationGroup' = Some([position |-> position, rotY |-> 0])
  /\ sceneExc' = sceneExc - InScene(excavationGroup) + 1
  /\ placedMarkers' = placedMarkers + 1
  /\ sceneMarkers' = sceneMarkers + 1
  /\ fallbackReticle' = IF fallbackReticle # Null
                        THEN Some([Get(fallbackReticle) EXCEPT !.label = FALSE])
                        ELSE Null
  /\ reticle' = IF reticle # Null
                THEN Some([Get(reticle) EXCEPT !.visible = FALSE])
                ELSE Null
  /\ pipePlaced' = TRUE
  /\ placedPosition' = Some(position)
  /\ UNCHANGED sceneFbReticles

\* autoPlaceAtDefaultPosition()
autoPlaceAtDefaultPosition ==
  IF pipePlaced
  THEN UNCHANGED <<placeVars, retVars>>
  ELSE placePipe(IF fallbackReticle # Null
                 THEN Get(fallbackReticle).position
                 ELSE <<0, 0, -3000>>)

\* Mutant of xrFrame: the reticle takes the pose of the last candidate.
xrFrameLastCandidate(hits, poseOk) ==
  /\ xrLoop
  /\ xrPlat = "live"
  /\ IF hitTestSource /\ ~pipePlaced
     THEN IF Len(hits) > 0
          THEN IF poseOk
               THEN reticle' = Some([visible |-> TRUE, position |-> hits[Len(hits)]])
               ELSE UNCHANGED reticle
          ELSE reticle' = Some([Get(reticle) EXCEPT !.visible = FALSE])
     ELSE UNCHANGED reticle
  /\ lastOp' = <<"onXRFrame", IF Len(hits) = 0 THEN "empty"
                              ELSE IF poseOk THEN "hit" ELSE "nopose">>
  /\ UNCHANGED <<initVars, uiVars, xrVars, fbVars, fallbackReticle, sceneFbReticles,
                 placeVars, assetVars, camVars, libVars>>

\* onXRFrame(timestamp, frame) with a frame of the live session: hits is the
\* hit-test result list, poseOk whether hit.getPose returns a pose.
xrFrame(hits, poseOk) ==
  /\ xrLoop
  /\ xrPlat = "live"
  /\ IF hitTestSource /\ ~pipePlaced
     THEN IF Len(hits) > 0
          THEN IF poseOk
               THEN reticle' = Some([visible |-> TRUE, position |-> hits[1]])
               ELSE UNCHANGED reticle
          ELSE reticle' = Some([Get(reticle) EXCEPT !.visible = FALSE])
     ELSE UNCHANGED reticle
  /\ lastOp' = <<"onXRFrame", IF Len(hits) = 0 THEN "empty"
                              ELSE IF poseOk THEN "hit" ELSE "nopose">>
  /\ UNCHANGED <<initVars, uiVars, xrVars, fbVars, fallbackReticle, sceneFbReticles,
                 placeVars, assetVars, camVars, libVars>>

onXRFrame == \E hits \in HitLists, poseOk \in BOOLEAN : xrFrame(hits, poseOk)

\* Mutant of onARSelect: the `if (pipePlaced) return` guard is missing.
onARSelectUnguarded ==
  /\ xrPlat = "live"
  /\ arPc = "running"
  /\ IF reticle # Null /\ Get(reticle).visible
     THEN /\ placePipe(Get(reticle).position)
          /\ lastOp' = <<"onARSelect", "reticle">>
     ELSE /\ \E position \in XRDefaultPositions : placePipe(position)
          /\ lastOp' = <<"onARSelect", "default">>
  /\ UNCHANGED <<initVars, uiVars, xrVars, fbVars, assetVars, camVars, libVars>>

\* onARSelect(event): the session's 'select' event (listener of line 198).
onARSelect ==
  /\ xrPlat = "live"
  /\ arPc = "running"
  /\ IF pipePlaced
     THEN /\ UNCHANGED <<placeVars, retVars>>
          /\ lastOp' = <<"onARSelect", "ignored">>
     ELSE IF reticle # Null /\ Get(reticle).visible
          THEN /\ placePipe(Get(reticle).position)
               /\ lastOp' = <<"onARSelect", "reticle">>
          ELSE /\ \E position \in XRDefaultPositions : placePipe(position)
               /\ lastOp' = <<"onARSelect", "default">>
  /\ UNCHANGED <<initVars, uiVars, xrVars, fbVars, assetVars, camVars, libVars>>

\* Mutant of ClickPlace: the button places at the default position when there
\* is no fallback reticle to take the position from.
ClickPlaceAnywhere ==
  /\ UIReady
  /\ IF ~pipePlaced
     THEN /\ placePipe(IF fallbackReticle # Null
                       THEN Get(fallbackReticle).position
                       ELSE <<0, 0, -3000>>)
          /\ lastOp' = <<"btnPlace", "placed">>
     ELSE /\ UNCHANGED <<placeVars, retVars>>
          /\ lastOp' = <<"btnPlace", "ignored">>
  /\ UNCHANGED <<initVars, uiVars, xrVars, fbVars, assetVars, camVars, libVars>>

\* Mutant of ClickPlace: the `if (pipePlaced) return` guard is missing.
ClickPlaceUnguarded ==
  /\ UIReady
  /\ IF fallbackMode /\ fallbackReticle # Null
     THEN /\ placePipe(Get(fallbackReticle).position)
          /\ lastOp' = <<"btnPlace", "placed">>
     ELSE /\ UNCHANGED <<placeVars, retVars>>
          /\ lastOp' = <<"btnPlace", "ignored">>
  /\ UNCHANGED <<initVars, uiVars, xrVars, fbVars, assetVars, camVars, libVars>>

\* btnPlace click handler.
ClickPlace ==
  /\ UIReady
  /\ IF ~pipePlaced /\ fallbackMode /\ fallbackReticle # Null
     THEN /\ placePipe(Get(fallbackReticle).position)
          /\ lastOp' = <<"btnPlace", "placed">>
     ELSE /\ UNCHANGED <<placeVars, retVars>>
          /\ lastOp' = <<"btnPlace", "ignored">>
  /\ UNCHANGED <<initVars, uiVars, xrVars, fbVars, assetVars, camVars, libVars>>

\* Mutant of CanvasClick: the `wasDragged` test is missing.
CanvasClickIgnoresDrag ==
  /\ UIReady
  /\ IF /\ fallbackMode /\ ~pipePlaced
        /\ fallbackReticle # Null
     THEN /\ placePipe(Get(fallbackReticle).position)
          /\ lastOp' = <<"canvasClick", "placed">>
     ELSE /\ UNCHANGED <<placeVars, retVars>>
          /\ lastOp' = <<"canvasClick", "ignored">>
  /\ UNCHANGED <<initVars, uiVars, xrVars, fbVars, assetVars, camVars, libVars>>

\* canvas click handler (tap to place in fallback mode).
CanvasClick ==
  /\ UIReady
  /\ IF /\ fallbackMode /\ ~pipePlaced
        /\ ~(~useDeviceOrientation /\ wasDragged)
        /\ fallbackReticle # Null
     THEN /\ placePipe(Get(fallbackReticle).position)
          /\ lastOp' = <<"canvasClick", "placed">>
     ELSE /\ UNCHANGED <<placeVars, retVars>>
          /\ lastOp' = <<"canvasClick", "ignored">>
  /\ UNCHANGED <<initVars, uiVars, xrVars, fbVars, assetVars, camVars, libVars>>

\* Mutant of ClickReset: the markers array is emptied but the markers stay in
\* the scene.
ClickResetKeepsMarkers ==
  /\ UIReady
  /\ pipeGroup' = Null
  /\ scenePipes' = scenePipes - InScene(pipeGroup)
  /\ excavationGroup' = Null
  /\ sceneExc' = sceneExc - InScene(excavationGroup)
  /\ sceneMarkers' = sceneMarkers
  /\ placedMarkers' = 0
  /\ pipePlaced' = FALSE
  /\ placedPosition' = Null
  /\ fallbackReticle' = Some(createFallbackReticle)
  /\ sceneFbReticles' = sceneFbReticles - InScene(fallbackReticle) + 1
  /\ fov' = 7000
  /\ lastOp' = <<"btnReset", IF pipePlaced THEN "placed" ELSE "empty">>
  /\ UNCHANGED <<initVars, uiVars, xrVars, fbVars, reticle, assetVars,
                 useDeviceOrientation, gyro, deviceOrientation, camera, isDragging,
                 wasDragged, permRequests, rigVars, libVars>>

\* btnReset click handler.
ClickReset ==
  /\ UIReady
  /\ pipeGroup' = Null
  /\ scenePipes' = scenePipes - InScene(pipeGroup)
  /\ excavationGroup' = Null
  /\ sceneExc' = sceneExc - InScene(excavationGroup)
  /\ sceneMarkers' = sceneMarkers - placedMarkers
  /\ placedMarkers' = 0
  /\ pipePlaced' = FALSE
  /\ placedPosition' = Null
  /\ fallbackReticle' = Some(createFallbackReticle)
  /\ sceneFbReticles' = sceneFbReticles - InScene(fallbackReticle) + 1
  /\ fov' = 7000
  /\ lastOp' = <<"btnReset", IF pipePlaced THEN "placed" ELSE "empty">>
  /\ UNCHANGED <<initVars, uiVars, xrVars, fbVars, reticle, assetVars,
                 useDeviceOrientation, gyro, deviceOrientation, camera, isDragging,
                 wasDragged, permRequests, rigVars, libVars>>

\* Mutant of RotationInput: the handler also moves the model back to the base
\* position.
RotationInputRebases ==
  /\ UIReady
  /\ \E angle \in YawInputs :
       /\ pipeGroup' = IF pipeGroup # Null
                       THEN Some([position |-> IF placedPosition # Null
                                               THEN Get(placedPosition)
                                               ELSE Get(pipeGroup).position,
                                  rotY |-> angle])
                       ELSE Null
       /\ excavationGroup' = IF excavationGroup # Null
                             THEN Some([Get(excavationGroup) EXCEPT !.rotY = angle])
                             ELSE Null
       /\ lastOp' = <<"rotation", ToString(angle)>>
  /\ UNCHANGED <<initVars, uiVars, xrVars, fbVars, retVars, pipePlaced, placedPosition,
                 placedMarkers, scenePipes, sceneExc, sceneMarkers, assetVars, camVars, libVars>>

\* rotationSlider input handler.
RotationInput ==
  /\ UIReady
  /\ \E angle \in YawInputs :
       /\ pipeGroup' = IF pipeGroup # Null
                       THEN Some([Get(pipeGroup) EXCEPT !.rotY = angle])
                       ELSE Null
       /\ excavationGroup' = IF excavationGroup # Null
                             THEN Some([Get(excavationGroup) EXCEPT !.rotY = angle])
                             ELSE Null
       /\ lastOp' = <<"rotation", ToString(angle)>>
  /\ UNCHANGED <<initVars, uiVars, xrVars, fbVars, retVars, pipePlaced, placedPosition,
                 placedMarkers, scenePipes, sceneExc, sceneMarkers, assetVars, camVars, libVars>>

\* The horizontal unit vector that a yaw of the given whole quarter turns
\* (rotation about the y axis) carries the +z axis to.
forward(yaw) ==
  CASE yaw % 360 = 0 -> <<0, 0, 1>>
    [] yaw % 360 = 90 -> <<1, 0, 0>>
    [] yaw % 360 = 180 -> <<0, 0, -1>>
    [] yaw % 360 = 270 -> <<-1, 0, 0>>

\* Mutant of DistanceInput: the offset is applied to the model's current z
\* instead of the base position's.
DistanceInputCumulative ==
  /\ UIReady
  /\ \E mm \in DistInputs :
       /\ IF pipeGroup # Null /\ placedPosition # Null
          THEN LET z == Get(pipeGroup).position[3] - mm
               IN /\ pipeGroup' = Some([Get(pipeGroup) EXCEPT !.position[3] = z])
                  /\ excavationGroup' =
                       IF excavationGroup # Null
                       THEN Some([Get(excavationGroup) EXCEPT !.position[3] = z])
                       ELSE Null
          ELSE UNCHANGED <<pipeGroup, excavationGroup>>
       /\ lastOp' = <<"distance", ToString(mm)>>
  /\ UNCHANGED <<initVars, uiVars, xrVars, fbVars, retVars, pipePlaced, placedPosition,
                 placedMarkers, scenePipes, sceneExc, sceneMarkers, assetVars, camVars, libVars>>

\* distanceSlider input handler: mm is the slider value.
DistanceInput ==
  /\ UIReady
  /\ \E mm \in DistInputs :
       /\ IF pipeGroup # Null /\ placedPosition # Null
          THEN LET z == Get(placedPosition)[3] - mm
               IN /\ pipeGroup' = Some([Get(pipeGroup) EXCEPT !.position[3] = z])
                  /\ excavationGroup' =
                       IF excavationGroup # Null
                       THEN Some([Get(excavationGroup) EXCEPT !.position[3] = z])
                       ELSE Null
          ELSE UNCHANGED <<pipeGroup, excavationGroup>>
       /\ lastOp' = <<"distance", ToString(mm)>>
  /\ UNCHANGED <<initVars, uiVars, xrVars, fbVars, retVars, pipePlaced, placedPosition,
                 placedMarkers, scenePipes, sceneExc, sceneMarkers, assetVars, camVars, libVars>>

\* Mutant of setAR3DModel: the replacement does not re-base placedPosition.
setAR3DModelKeepsBase ==
  /\ UIReady
  /\ assetLoads < MaxLoads
  /\ assetLoads' = assetLoads + 1
  /\ IF pipePlaced /\ pipeGroup # Null
     THEN LET pos == Get(pipeGroup).position
              rot == Get(pipeGroup).rotY
          IN /\ pipeGroup' = Some([position |-> pos, rotY |-> rot])
             /\ excavationGroup' = Some([position |-> pos, rotY |-> rot])
             /\ sceneExc' = sceneExc - InScene(excavationGroup) + 1
             /\ lastOp' = <<"setAR3DModel", "replaced">>
             /\ UNCHANGED <<pipePlaced, placedPosition, placedMarkers, scenePipes,
                            sceneMarkers, retVars>>
     ELSE /\ autoPlaceAtDefaultPosition
          /\ lastOp' = <<"setAR3DModel", IF pipePlaced THEN "ignored" ELSE "autoPlaced">>
  /\ UNCHANGED <<initVars, uiVars, xrVars, fbVars, camVars, libVars>>

\* setAR3DModel(model, filename): lines 934-966.
setAR3DModel ==
  /\ UIReady
  /\ assetLoads < MaxLoads
  /\ assetLoads' = assetLoads + 1
  /\ IF pipePlaced /\ pipeGroup # Null
     THEN LET pos == Get(pipeGroup).position
              rot == Get(pipeGroup).rotY
          IN /\ pipeGroup' = Some([position |-> pos, rotY |-> rot])
             /\ excavationGroup' = Some([position |-> pos, rotY |-> rot])
             /\ sceneExc' = sceneExc - InScene(excavationGroup) + 1
             /\ placedPosition' = Some(pos)
             /\ lastOp' = <<"setAR3DModel", "replaced">>
             /\ UNCHANGED <<pipePlaced, placedMarkers, scenePipes, sceneMarkers, retVars>>
     ELSE /\ autoPlaceAtDefaultPosition
          /\ lastOp' = <<"setAR3DModel", IF pipePlaced THEN "ignored" ELSE "autoPlaced">>
  /\ UNCHANGED <<initVars, uiVars, xrVars, fbVars, camVars, libVars>>

\* loadARPipeData(json, filename): lines 977-998.
loadARPipeData ==
  /\ UIReady
  /\ assetLoads < MaxLoads
  /\ assetLoads' = assetLoads + 1
  /\ IF pipePlaced /\ pipeGroup # Null
     THEN LET pos == Get(pipeGroup).position
              rot == Get(pipeGroup).rotY
          IN /\ pipeGroup' = Some([position |-> pos, rotY |-> rot])
             /\ placedPosition' = Some(pos)
             /\ lastOp' = <<"loadARPipeData", "replaced">>
             /\ UNCHANGED <<pipePlaced, excavationGroup, placedMarkers, scenePipes,
                            sceneExc, sceneMarkers, retVars>>
     ELSE /\ autoPlaceAtDefaultPosition
          /\ lastOp' = <<"loadARPipeData", IF pipePlaced THEN "ignored" ELSE "autoPlaced">>
  /\ UNCHANGED <<initVars, uiVars, xrVars, fbVars, camVars, libVars>>

\* Mutant of rebuildExcavation: the rebuilt group keeps the position but not
\* the yaw.
rebuildExcavationDropsYaw ==
  /\ UIReady
  /\ excavationGroup' = IF excavationGroup # Null
                        THEN Some([position |-> Get(excavationGroup).position, rotY |-> 0])
                        ELSE Null
  /\ sceneExc' = sceneExc - InScene(excavationGroup) + InScene(excavationGroup)
  /\ lastOp' = <<"rebuildExcavation", "">>
  /\ UNCHANGED <<initVars, uiVars, xrVars, fbVars, retVars, pipePlaced, pipeGroup,
                 placedPosition, placedMarkers, scenePipes, sceneMarkers, assetVars,
                 camVars, libVars>>

\* rebuildExcavation(changedParams), called by the excavation sliders: the
\* group is built anew from the changed parameters (its mesh is opaque here)
\* at the pose of the old one.
rebuildExcavation ==
  /\ UIReady
  /\ excavationGroup' = IF excavationGroup # Null
                        THEN Some([position |-> Get(excavationGroup).position,
                                   rotY |-> Get(excavationGroup).rotY])
                        ELSE Null
  /\ sceneExc' = sceneExc - InScene(excavationGroup) + InScene(excavationGroup)
  /\ lastOp' = <<"rebuildExcavation", "">>
  /\ UNCHANGED <<initVars, uiVars, xrVars, fbVars, retVars, pipePlaced, pipeGroup,
                 placedPosition, placedMarkers, scenePipes, sceneMarkers, assetVars,
                 camVars, libVars>>

\* ------------------------------------------- fallback loop and sensors
\* Mutant of animate: the `!pipePlaced` condition of the reticle update is
\* missing.
animateUnguarded ==
  /\ fallbackAnimateRunning
  /\ LET cam == IF useDeviceOrientation
                THEN [camera EXCEPT !.v = deviceOrientation.v, !.n = deviceOrientation.n]
                ELSE camera
     IN /\ camera' = cam
        /\ fallbackReticle' =
             IF fallbackReticle # Null /\ Get(fallbackReticle).visible
             THEN Some([Get(fallbackReticle) EXCEPT
                         !.position = updateFallbackReticle(cam, Get(fallbackReticle).position)])
             ELSE fallbackReticle
  /\ lastOp' = <<"animate", "">>
  /\ UNCHANGED <<initVars, uiVars, xrVars, fbVars, reticle, sceneFbReticles, placeVars,
                 assetVars, useDeviceOrientation, gyro, deviceOrientation, isDragging,
                 wasDragged, permRequests, rigVars, fov, libVars>>

\* One tick of animate(): the camera follows the stored orientation sample,
\* then the reticle follows the camera.
animate ==
  /\ fallbackAnimateRunning
  /\ LET cam == IF useDeviceOrientation
                THEN [camera EXCEPT !.v = deviceOrientation.v, !.n = deviceOrientation.n]
                ELSE camera
     IN /\ camera' = cam
        /\ fallbackReticle' =
             IF fallbackReticle # Null /\ Get(fallbackReticle).visible /\ ~pipePlaced
             THEN Some([Get(fallbackReticle) EXCEPT
                         !.position = updateFallbackReticle(cam, Get(fallbackReticle).position)])
             ELSE fallbackReticle
  /\ lastOp' = <<"animate", "">>
  /\ UNCHANGED <<initVars, uiVars, xrVars, fbVars, reticle, sceneFbReticles, placeVars,
                 assetVars, useDeviceOrientation, gyro, deviceOrientation, isDragging,
                 wasDragged, permRequests, rigVars, fov, libVars>>

\* activateDeviceOrientation()
activateDeviceOrientation ==
  /\ useDeviceOrientation' = TRUE
  /\ camera' = [camera EXCEPT !.position = <<0, 1600, 0>>]
  /\ gyro' = "active"

\* btnGyroPermission click: the handler up to `await requestPermission()`.
ClickGyroPermission ==
  /\ gyro = "button"
  /\ gyro' = "asking"
  /\ permRequests' = permRequests + 1
  /\ lastOp' = Other
  /\ UNCHANGED <<initVars, uiVars, xrVars, fbVars, retVars, placeVars, assetVars,
                 useDeviceOrientation, deviceOrientation, camera, isDragging, wasDragged, rigVars, fov, libVars>>

\* Mutant of GyroPermissionSettled: the handler does not test the response
\* and activates orientation mode whenever the request resolves.
GyroPermissionSettledUntested ==
  /\ gyro = "asking"
  /\ \E resp \in {"granted", "denied", "throws"} :
       /\ IF resp # "throws"
          THEN activateDeviceOrientation
          ELSE /\ gyro' = "off"
               /\ UNCHANGED <<useDeviceOrientation, camera>>
       /\ lastOp' = <<"gyroPermission", resp>>
  /\ UNCHANGED <<initVars, uiVars, xrVars, fbVars, retVars, placeVars, assetVars,
                 deviceOrientation, isDragging, wasDragged, permRequests, rigVars, fov, libVars>>

\* DeviceOrientationEvent.requestPermission() settles.
GyroPermissionSettled ==
  /\ gyro = "asking"
  /\ \E resp \in {"granted", "denied", "throws"} :
       /\ IF resp = "granted"
          THEN activateDeviceOrientation
          ELSE /\ gyro' = "off"
               /\ UNCHANGED <<useDeviceOrientation, camera>>
       /\ lastOp' = <<"gyroPermission", resp>>
  /\ UNCHANGED <<initVars, uiVars, xrVars, fbVars, retVars, placeVars, assetVars,
                 deviceOrientation, isDragging, wasDragged, permRequests, rigVars, fov, libVars>>

\* A 'deviceorientation' event: sample is Null when event.alpha is null.
\* While detecting, onFirstEvent handles it; once active, the sample listener.
DeviceOrientationEvent ==
  /\ gyro \in {"detect", "active"}
  /\ \E sample \in {Null} \cup {Some(o) : o \in OrientationSamples} :
       /\ IF sample = Null
          THEN UNCHANGED <<useDeviceOrientation, camera, gyro, deviceOrientation>>
          ELSE IF gyro = "detect"
               THEN activateDeviceOrientation /\ UNCHANGED deviceOrientation
               ELSE /\ deviceOrientation' = Get(sample)
                    /\ UNCHANGED <<useDeviceOrientation, camera, gyro>>
       /\ lastOp' = Other
  /\ UNCHANGED <<initVars, uiVars, xrVars, fbVars, retVars, placeVars, assetVars,
                 isDragging, wasDragged, permRequests, rigVars, fov, libVars>>

\* The 3 s detection timer of tryDeviceOrientation fires undetected.
GyroDetectTimeout ==
  /\ gyro = "detect"
  /\ gyro' = "off"
  /\ lastOp' = Other
  /\ UNCHANGED <<initVars, uiVars, xrVars, fbVars, retVars, placeVars, assetVars,
                 useDeviceOrientation, deviceOrientation, camera, isDragging, wasDragged,
                 permRequests, rigVars, fov, libVars>>

\* Math.max(lo, Math.min(hi, x)).
clamp(lo, hi, x) == IF x < lo THEN lo ELSE IF x > hi THEN hi ELSE x

\* 100 * Math.cos and 100 * Math.sin at the horizontal angles the drags of
\* the model produce (0 and 1 rad), rounded.
cos100(h) == IF h = 0 THEN 100 ELSE 54
sin100(h) == IF h = 0 THEN 0 ELSE 84

\* updateCameraPos(): the camera on the orbit around the pan target, looking
\* at it.  The orbit is quantised to two poses: the one of the initial
\* horizontal angle and pan target, and one for every other setting.
updateCameraPos(h, pan) ==
  IF h = 0 /\ pan = <<0, 0>> THEN PointerHome ELSE PointerSide

\* x / ratio with ratio = dist / lastPinchDist; a division by zero gives
\* Infinity, which stands above every upper clamp bound.
divRatio(x, dist, last) == IF dist = 0 THEN Infinity ELSE (x * last) \div dist

otherVars == <<initVars, uiVars, xrVars, fbVars, retVars, placeVars, assetVars,
               useDeviceOrientation, gyro, deviceOrientation, permRequests>>

\* canvas 'pointerdown' handler.
pointerdown(button) ==
  /\ fallbackControlsReady
  /\ IF useDeviceOrientation
     THEN /\ lastOp' = <<"pointerdown", "ignored">>
          /\ UNCHANGED <<isDragging, wasDragged, isPanning>>
     ELSE IF button = 2
     THEN /\ isPanning' = TRUE
          /\ lastOp' = Other
          /\ UNCHANGED <<isDragging, wasDragged>>
     ELSE /\ isDragging' = TRUE
          /\ wasDragged' = FALSE
          /\ lastOp' = Other
          /\ UNCHANGED isPanning
  /\ UNCHANGED <<otherVars, camera, cameraAngleH, cameraAngleV, cameraDistance,
                 panTarget, lastPinchDist, fov, libVars>>

\* Left button.
PointerDown == pointerdown(0)

\* Right button.
PointerDownRight == pointerdown(2)

\* canvas 'pointermove' handler: dx, dy is the pointer's movement since the
\* previous event and far is whether it is more than DRAG_THRESHOLD from the
\* press point.
pointermove(dx, dy, far) ==
  /\ fallbackControlsReady
  /\ useDeviceOrientation \/ isPanning \/ isDragging
  /\ IF useDeviceOrientation
     THEN /\ lastOp' = <<"pointermove", "ignored">>
          /\ UNCHANGED <<wasDragged, cameraAngleH, cameraAngleV, panTarget, camera>>
     ELSE IF isPanning
     THEN /\ panTarget' =
               <<panTarget[1] - (dx * cos100(cameraAngleH) + dy * sin100(cameraAngleH)) \div 100,
                 panTarget[2] + (dx * sin100(cameraAngleH) - dy * cos100(cameraAngleH)) \div 100>>
          /\ \A i \in 1..2 : -MaxPan <= panTarget'[i] /\ panTarget'[i] <= MaxPan
          /\ camera' = updateCameraPos(cameraAngleH, panTarget')
          /\ lastOp' = Other
          /\ UNCHANGED <<wasDragged, cameraAngleH, cameraAngleV>>
     ELSE /\ wasDragged' = (wasDragged \/ far)
          /\ cameraAngleH' = cameraAngleH + dx
          /\ cameraAngleH' <= MaxAngleH
          /\ cameraAngleV' = clamp(10, 140, cameraAngleV + dy)
          /\ camera' = updateCameraPos(cameraAngleH', panTarget)
          /\ lastOp' = Other
          /\ UNCHANGED panTarget
  /\ UNCHANGED <<otherVars, isDragging, isPanning, cameraDistance, lastPinchDist, fov, libVars>>

PointerMove == \E d \in DragDeltas, far \in BOOLEAN : pointermove(d[1], d[2], far)

\* canvas 'pointerup' handler.
PointerUp ==
  /\ fallbackControlsReady
  /\ isDragging \/ isPanning
  /\ isDragging' = FALSE
  /\ isPanning' = FALSE
  /\ lastOp' = Other
  /\ UNCHANGED <<otherVars, camera, wasDragged, cameraAngleH, cameraAngleV,
                 cameraDistance, panTarget, lastPinchDist, fov, libVars>>

\* Mutant of wheel: the handler has no orientation-mode guard.
wheelUnguarded(deltaY) ==
  /\ fallbackControlsReady
  /\ cameraDistance' = clamp(50, 3000, cameraDistance + deltaY)
  /\ camera' = updateCameraPos(cameraAngleH, panTarget)
  /\ lastOp' = Other
  /\ UNCHANGED <<otherVars, isDragging, wasDragged, cameraAngleH, cameraAngleV,
                 panTarget, isPanning, lastPinchDist, fov, libVars>>

\* canvas 'wheel' handler.
wheel(deltaY) ==
  /\ fallbackControlsReady
  /\ IF useDeviceOrientation
     THEN /\ lastOp' = <<"wheel", "ignored">>
          /\ UNCHANGED <<cameraDistance, camera>>
     ELSE /\ cameraDistance' = clamp(50, 3000, cameraDistance + deltaY)
          /\ camera' = updateCameraPos(cameraAngleH, panTarget)
          /\ lastOp' = Other
  /\ UNCHANGED <<otherVars, isDragging, wasDragged, cameraAngleH, cameraAngleV,
                 panTarget, isPanning, lastPinchDist, fov, libVars>>

Wheel == \E deltaY \in WheelDeltas : wheel(deltaY)

\* canvas 'touchstart' handler with two touches dist pixels apart.
touchstart(dist) ==
  /\ fallbackControlsReady
  /\ lastPinchDist' = dist
  /\ lastOp' = Other
  /\ UNCHANGED <<otherVars, camera, isDragging, wasDragged, cameraAngleH, cameraAngleV,
                 cameraDistance, panTarget, isPanning, fov, libVars>>

TouchStart == \E dist \in PinchDistances : touchstart(dist)

\* Mutant of touchmove: the zoom of orientation mode is not clamped.
touchmoveFovUnclamped(dist) ==
  /\ fallbackControlsReady
  /\ lastPinchDist > 0
  /\ IF useDeviceOrientation
     THEN /\ fov' = divRatio(fov, dist, lastPinchDist)
          /\ UNCHANGED <<cameraDistance, camera>>
     ELSE /\ cameraDistance' = clamp(50, 3000, divRatio(cameraDistance, dist, lastPinchDist))
          /\ camera' = updateCameraPos(cameraAngleH, panTarget)
          /\ UNCHANGED fov
  /\ lastPinchDist' = dist
  /\ lastOp' = Other
  /\ UNCHANGED <<otherVars, isDragging, wasDragged, cameraAngleH, cameraAngleV,
                 panTarget, isPanning, libVars>>

\* canvas 'touchmove' handler with two touches dist pixels apart, after a
\* touch event that left a positive finger distance.
touchmove(dist) ==
  /\ fallbackControlsReady
  /\ lastPinchDist > 0
  /\ IF useDeviceOrientation
     THEN /\ fov' = clamp(2000, 10000, divRatio(fov, dist, lastPinchDist))
          /\ UNCHANGED <<cameraDistance, camera>>
     ELSE /\ cameraDistance' = clamp(50, 3000, divRatio(cameraDistance, dist, lastPinchDist))
          /\ camera' = updateCameraPos(cameraAngleH, panTarget)
          /\ UNCHANGED fov
  /\ lastPinchDist' = dist
  /\ lastOp' = Other
  /\ UNCHANGED <<otherVars, isDragging, wasDragged, cameraAngleH, cameraAngleV,
                 panTarget, isPanning, libVars>>

TouchMove == \E dist \in PinchDistances : touchmove(dist)

\* canvas 'touchend' handler.
TouchEnd ==
  /\ fallbackControlsReady
  /\ lastPinchDist > 0
  /\ lastPinchDist' = 0
  /\ lastOp' = Other
  /\ UNCHANGED <<otherVars, camera, isDragging, wasDragged, cameraAngleH, cameraAngleV,
                 cameraDistance, panTarget, isPanning, fov, libVars>>

\* ------------------------------------------------------- QR scanner
\* QRHandler.stopScan() up to its first suspension.  scanner.stop() of a
\* scanner that is not running (stopped, starting or already stopping) fails
\* at once and the catch swallows it.
stopScan ==
  IF ~isScanning
  THEN UNCHANGED <<isScanning, scanner, scanStops>>
  ELSE /\ scanStops' = scanStops + 1
       /\ IF scanner = "running"
          THEN /\ scanner' = "stopping"
               /\ UNCHANGED isScanning
          ELSE /\ isScanning' = FALSE
               /\ UNCHANGED scanner

\* A caller invokes QRHandler.startScan(): up to its first suspension.
\* scanner.start() of a scanner that is starting, running or stopping fails at
\* once; the catch clears the flag and rethrows.
StartScan ==
  /\ IF isScanning
     THEN /\ lastOp' = <<"startScan", "ignored">>
          /\ UNCHANGED <<isScanning, scanner, scanStarts>>
     ELSE /\ scanStarts < MaxScanCalls
          /\ scanStarts' = scanStarts + 1
          /\ IF scanner = "stopped"
             THEN /\ isScanning' = TRUE
                  /\ scanner' = "starting"
                  /\ lastOp' = <<"startScan", "issued">>
             ELSE /\ isScanning' = FALSE
                  /\ lastOp' = <<"startScan", "busy">>
                  /\ UNCHANGED scanner
  /\ UNCHANGED <<appVars, codecVars, excVars, depVars, scanStops, scanResults>>

\* Mutant of StartSettled: the catch rethrows without clearing the flag.
StartSettledKeepsFlag ==
  /\ scanner = "starting"
  /\ \/ /\ scanner' = "running"
        /\ lastOp' = <<"startScan", "resolved">>
     \/ /\ scanner' = "stopped"
        /\ lastOp' = <<"startScan", "rethrown">>
  /\ UNCHANGED <<appVars, codecVars, excVars, depVars, isScanning, scanStarts, scanStops, scanResults>>

\* scanner.start() settles: startScan returns, or its catch clears the flag
\* and rethrows.
StartSettled ==
  /\ scanner = "starting"
  /\ \/ /\ scanner' = "running"
        /\ lastOp' = <<"startScan", "resolved">>
        /\ UNCHANGED isScanning
     \/ /\ scanner' = "stopped"
        /\ isScanning' = FALSE
        /\ lastOp' = <<"startScan", "rethrown">>
  /\ UNCHANGED <<appVars, codecVars, excVars, depVars, scanStarts, scanStops, scanResults>>

\* A caller invokes QRHandler.stopScan().
StopScan ==
  /\ scanStops < MaxScanCalls
  /\ stopScan
  /\ lastOp' = <<"stopScan", IF ~isScanning THEN "ignored"
                             ELSE IF scanner = "running" THEN "issued" ELSE "failed">>
  /\ UNCHANGED <<appVars, codecVars, excVars, depVars, scanStarts, scanResults>>

\* scanner.stop() settles: after a rejection the scanner may have stopped or
\* may still run; the flag is cleared either way.
StopSettled ==
  /\ scanner = "stopping"
  /\ \/ /\ scanner' = "stopped"
        /\ lastOp' = <<"stopScan", "resolved">>
     \/ /\ scanner' \in {"stopped", "running"}
        /\ lastOp' = <<"stopScan", "rejected">>
  /\ isScanning' = FALSE
  /\ UNCHANGED <<appVars, codecVars, excVars, depVars, scanStarts, scanStops, scanResults>>

\* The running scanner decodes a code: the success callback of lines 34-44.
\* A valid SEWER code is handed to onResult and stopScan() is called; any
\* other text is handed on raw.
Decoded ==
  /\ scanner = "running"
  /\ \E valid \in BOOLEAN :
       IF valid
       THEN /\ scanResults < MaxScanCalls
            /\ scanStops < MaxScanCalls
            /\ scanResults' = scanResults + 1
            /\ stopScan
            /\ lastOp' = <<"decoded", "valid">>
       ELSE /\ lastOp' = <<"decoded", "raw">>
            /\ UNCHANGED <<isScanning, scanner, scanStops, scanResults>>
  /\ UNCHANGED <<appVars, codecVars, excVars, depVars, scanStarts>>

ScanNext == StartScan \/ StartSettled \/ StopScan \/ StopSettled \/ Decoded

SpecScan == Init /\ [][ScanNext]_vars

\* The scanner's promises settle.
FairSpecScan == SpecScan /\ WF_vars(StartSettled) /\ WF_vars(StopSettled)

\* ------------------------------------------------------------ QR codec
\* The viewer reads a pipe JSON file: pipes without id or type get defaults, a
\* file without excavation parameters gets the default ones.
LoadJSON ==
  /\ \E json \in JsonFiles :
       LET falsy(value) ==              \* !value
             \/ value.t \in {"undefined", "null"}
             \/ value.t = "str" /\ value.s = <<>>
             \/ value.t = "num" /\ value.n = 0
           p(i) == json.pipes[i]
           withId(i) == IF falsy(get(p(i), Lit.id))
                        THEN JsObj(Append(p(i).m, <<Lit.id, JsStr(Lit.P \o numberText(10 * i))>>))
                        ELSE p(i)
           withType(i) == IF falsy(get(withId(i), Lit.type))
                          THEN JsObj(Append(withId(i).m, <<Lit.type, JsStr(Lit.service)>>))
                          ELSE withId(i)
       IN currentData' = [pipes |-> [i \in 1..Len(json.pipes) |-> withType(i)],
                       excavation |-> IF falsy(json.excavation)
                                      THEN Excavation(8000, 15000, 60000)
                                      ELSE json.excavation]
  /\ codecCall' = NoCall
  /\ lastOp' = <<"loadJSON", "">>
  /\ UNCHANGED <<appVars, qrVars, excVars, depVars>>

\* A pipe of the data set is encoded and the text is decoded again: the
\* viewer's "open in AR" button and init() of the AR page.
RoundTrip ==
  /\ \E i \in 1..Len(currentData.pipes) :
       LET qr == encode(get(currentData.pipes[i], Lit.id), currentData)
       IN /\ codecCall' = [op |-> "roundTrip", pipe |-> currentData.pipes[i], qr |-> qr,
                           out |-> IF qr.t = "str" THEN decode(qr.s) ELSE qr]
          /\ lastOp' = <<"roundTrip", qr.t>>
  /\ UNCHANGED <<appVars, qrVars, excVars, depVars, currentData>>

\* encode is asked for an id that no pipe of the data set has.
EncodeMissing ==
  /\ \E id \in {JsStr(<<76>>), JsStr(<<77>>), JsStr(<<88>>)} :
       /\ \A i \in 1..Len(currentData.pipes) : get(currentData.pipes[i], Lit.id) # id
       /\ codecCall' = [op |-> "encodeMissing", pipe |-> JsUndefined,
                        qr |-> encode(id, currentData), out |-> JsUndefined]
  /\ lastOp' = <<"encodeMissing", "">>
  /\ UNCHANGED <<appVars, qrVars, excVars, depVars, currentData>>

\* decode is given a scanned text that is not a code of this codec.
DecodeForeign ==
  /\ \E text \in ForeignStrings :
       codecCall' = [op |-> "decodeForeign", pipe |-> JsUndefined,
                     qr |-> JsStr(text), out |-> decode(text)]
  /\ lastOp' = <<"decodeForeign", "">>
  /\ UNCHANGED <<appVars, qrVars, excVars, depVars, currentData>>

CodecNext == LoadJSON \/ RoundTrip \/ EncodeMissing \/ DecodeForeign

SpecCodec == Init /\ [][CodecNext]_vars

\* ------------------------------------------------- excavation parameters
\* ExcavationManager.create(params): a legacy length is split into front and
\* back, and a length that is missing or zero becomes 3000.  The caller's
\* object keeps the split.
ExcCreate ==
  /\ \E params \in [width : {600, 800}, depth : {1500},
                    length : {Null} \cup {Some(x) : x \in (0..MaxLength) \cup {6000, 6001}},
                    lengthFront : {Null, Some(0), Some(2000)},
                    lengthBack : {Null, Some(1000)}] :
       LET legacy == params.length # Null /\ params.lengthFront = Null
           front == IF legacy THEN Some((Get(params.length) + 1) \div 2)  \* Math.round(length / 2)
                    ELSE params.lengthFront
           back == IF legacy THEN Some(Get(params.length) - Get(front))
                   ELSE params.lengthBack
           orDefault(x) == IF x = Null \/ Get(x) = 0 THEN 3000 ELSE Get(x)
       IN /\ excParams' = [width |-> params.width, depth |-> params.depth,
                           lengthFront |-> orDefault(front),
                           lengthBack |-> orDefault(back)]
          /\ excArg' = [params EXCEPT !.lengthFront = front, !.lengthBack = back]
          /\ lastOp' = <<"create", IF legacy THEN "legacy" ELSE "split">>
  /\ UNCHANGED <<appVars, qrVars, codecVars, depVars>>

\* ExcavationManager.update(newParams) with one length.
ExcUpdate ==
  /\ \E x \in {0, 1500} :
       \/ excParams' = [excParams EXCEPT !.lengthFront = x]
       \/ excParams' = [excParams EXCEPT !.lengthBack = x]
  /\ lastOp' = <<"update", "">>
  /\ UNCHANGED <<appVars, qrVars, codecVars, depVars, excArg>>

getTotalLength == excParams.lengthFront + excParams.lengthBack

\* getVolume() in cubic millimetres: the division by 1e9 is left undone.
getVolume == excParams.width * excParams.depth * getTotalLength

ExcNext == ExcCreate \/ ExcUpdate

SpecExc == Init /\ [][ExcNext]_vars

\* ------------------------------------------------------ dependency check
\* What a page load may find missing: Three.js itself, or any of its loaders.
MissingInputs == {{"THREE"}} \cup SUBSET {"GLTFLoader", "FBXLoader", "STLLoader", "OBJLoader"}

\* Mutant of pageLoad: the retry flag is not consulted.
pageLoadAlwaysRetries(cause, missing) ==
  /\ pageLoads < MaxPageLoads
  /\ pageLoads' = pageLoads + 1
  /\ IF missing = {"THREE"}
     THEN /\ page' = [cause |-> cause, missing |-> missing, result |-> "stopped"]
          /\ reloadTimer' = FALSE
          /\ UNCHANGED retryFlag
     ELSE IF missing # {}
     THEN /\ page' = [cause |-> cause, missing |-> missing, result |-> "waitReload"]
          /\ retryFlag' = TRUE
          /\ reloadTimer' = TRUE
     ELSE /\ page' = [cause |-> cause, missing |-> missing, result |-> "init"]
          /\ retryFlag' = FALSE
          /\ reloadTimer' = FALSE
  /\ lastOp' = <<"pageLoad", cause>>
  /\ UNCHANGED <<appVars, qrVars, codecVars, excVars>>

\* A page load up to the end of checkDependencies(): init() stops when
\* Three.js is missing; with a loader missing the first load sets the retry
\* flag and schedules a reload, a load that finds the flag removes it and goes
\* on; with nothing missing the flag is removed.  Timers of the page before
\* are gone.
pageLoad(cause, missing) ==
  /\ pageLoads < MaxPageLoads
  /\ pageLoads' = pageLoads + 1
  /\ IF missing = {"THREE"}
     THEN /\ page' = [cause |-> cause, missing |-> missing, result |-> "stopped"]
          /\ reloadTimer' = FALSE
          /\ UNCHANGED retryFlag
     ELSE IF missing # {} /\ ~retryFlag
     THEN /\ page' = [cause |-> cause, missing |-> missing, result |-> "waitReload"]
          /\ retryFlag' = TRUE
          /\ reloadTimer' = TRUE
     ELSE /\ page' = [cause |-> cause, missing |-> missing, result |-> "init"]
          /\ retryFlag' = FALSE
          /\ reloadTimer' = FALSE
  /\ lastOp' = <<"pageLoad", cause>>
  /\ UNCHANGED <<appVars, qrVars, codecVars, excVars>>

\* The user reloads the page or opens it again in the same tab.
ManualReload == \E missing \in MissingInputs : pageLoad("manual", missing)

\* The 1500 ms timer fires: location.reload().
ReloadTimerFires ==
  /\ reloadTimer
  /\ \E missing \in MissingInputs : pageLoad("auto", missing)

DepNext == ManualReload \/ ReloadTimerFires

SpecDeps == Init /\ [][DepNext]_vars

\* ------------------------------------------------------ specification
Next ==
  \/ InitSupportChecked
  \/ ClickStartAR
  \/ RequestSessionSettled
  \/ SetSessionSettled
  \/ RefSpaceSettled
  \/ ViewerSpaceSettled
  \/ HitTestSourceSettled
  \/ ARTimerFires
  \/ ClickSkipAR
  \/ onSessionEnd
  \/ SessionEndsUnheard
  \/ \E i \in Slots : CameraGranted(i)
  \/ \E i \in Slots : CameraRejected(i)
  \/ \E i \in Slots : CameraPlaySettled(i)
  \/ onXRFrame
  \/ onARSelect
  \/ ClickPlace
  \/ CanvasClick
  \/ ClickReset
  \/ RotationInput
  \/ DistanceInput
  \/ setAR3DModel
  \/ loadARPipeData
  \/ rebuildExcavation
  \/ animate
  \/ ClickGyroPermission
  \/ GyroPermissionSettled
  \/ DeviceOrientationEvent
  \/ GyroDetectTimeout

Spec == Init /\ [][Next]_vars

\* The promises and timers of the platform settle: every suspended stretch of
\* init, startARSession and startFallbackMode is eventually resumed.  User
\* input and session termination are not forced.
Fairness ==
  /\ WF_vars(InitSupportChecked)
  /\ WF_vars(RequestSessionSettled)
  /\ WF_vars(SetSessionSettled)
  /\ WF_vars(RefSpaceSettled)
  /\ WF_vars(ViewerSpaceSettled)
  /\ WF_vars(HitTestSourceSettled)
  /\ WF_vars(ARTimerFires)
  /\ WF_vars(\E i \in Slots : CameraGranted(i) \/ CameraRejected(i))
  /\ WF_vars(\E i \in Slots : CameraPlaySettled(i))

FairSpec == Spec /\ Fairness

\* The session machine together with the pointer rig of the fallback camera.
\* startFallbackMode() invoked by an arbitrary caller at an arbitrary moment
\* once init() passed its support check: the function under every
\* interleaving of its invocations, also those the page's own buttons cannot
\* produce.
CallStartFallbackMode ==
  /\ initPc # "checking"
  /\ startFallbackMode("call")
  /\ lastOp' = <<"call", "startFallbackMode">>
  /\ UNCHANGED <<xrVars, reticle, placeVars, assetVars, useDeviceOrientation,
                 deviceOrientation, isDragging, wasDragged, permRequests, rigVars, fov, libVars>>

\* The fallback backend with that caller: its start, its camera request, its
\* render loop, and placement and reset on its reticle.
CallsNext ==
  \/ InitSupportChecked
  \/ ClickSkipAR
  \/ CallStartFallbackMode
  \/ \E i \in Slots : CameraGranted(i)
  \/ \E i \in Slots : CameraRejected(i)
  \/ \E i \in Slots : CameraPlaySettled(i)
  \/ ClickPlace
  \/ ClickReset
  \/ animate
  \/ ClickGyroPermission
  \/ GyroPermissionSettled
  \/ DeviceOrientationEvent
  \/ GyroDetectTimeout

SpecCalls == Init /\ [][CallsNext]_vars

\* Mutant of DeviceOrientationWide: the detection listener does not test
\* event.alpha and activates orientation mode on a null sample too.
DeviceOrientationWideNullActivates ==
  /\ gyro \in {"detect", "active"}
  /\ \E sample \in {Null} \cup {Some(o) : o \in ProjOrientations} :
       /\ IF gyro = "detect"
          THEN activateDeviceOrientation /\ UNCHANGED deviceOrientation
          ELSE IF sample = Null
               THEN UNCHANGED <<useDeviceOrientation, camera, gyro, deviceOrientation>>
               ELSE /\ deviceOrientation' = Get(sample)
                    /\ UNCHANGED <<useDeviceOrientation, camera, gyro>>
       /\ lastOp' = <<"deviceorientation", IF sample = Null THEN "null" ELSE "sample">>
  /\ UNCHANGED <<initVars, uiVars, xrVars, fbVars, retVars, placeVars, assetVars,
                 isDragging, wasDragged, permRequests, rigVars, fov, libVars>>

\* A 'deviceorientation' event with a sample of the wider range (Null when
\* event.alpha is null).
DeviceOrientationWide ==
  /\ gyro \in {"detect", "active"}
  /\ \E sample \in {Null} \cup {Some(o) : o \in ProjOrientations} :
       /\ IF sample = Null
          THEN UNCHANGED <<useDeviceOrientation, camera, gyro, deviceOrientation>>
          ELSE IF gyro = "detect"
               THEN activateDeviceOrientation /\ UNCHANGED deviceOrientation
               ELSE /\ deviceOrientation' = Get(sample)
                    /\ UNCHANGED <<useDeviceOrientation, camera, gyro>>
       /\ lastOp' = <<"deviceorientation", IF sample = Null THEN "null" ELSE "sample">>
  /\ UNCHANGED <<initVars, uiVars, xrVars, fbVars, retVars, placeVars, assetVars,
                 isDragging, wasDragged, permRequests, rigVars, fov, libVars>>

\* The fallback backend and its camera controls, with the wider range of
\* orientations: what updateFallbackReticle is applied to.
ProjNext ==
  \/ InitSupportChecked
  \/ ClickSkipAR
  \/ \E i \in Slots : CameraGranted(i)
  \/ \E i \in Slots : CameraRejected(i)
  \/ \E i \in Slots : CameraPlaySettled(i)
  \/ ClickGyroPermission
  \/ GyroPermissionSettled
  \/ DeviceOrientationWide
  \/ GyroDetectTimeout
  \/ PointerDown
  \/ PointerMove
  \/ PointerUp
  \/ animate

SpecProjection == Init /\ [][ProjNext]_vars

\* Tap to place: the fallback backend with the left-button pointer gestures,
\* the canvas click, the orientation activation and reset.
TapNext ==
  \/ InitSupportChecked
  \/ ClickSkipAR
  \/ \E i \in Slots : CameraGranted(i)
  \/ \E i \in Slots : CameraRejected(i)
  \/ \E i \in Slots : CameraPlaySettled(i)
  \/ ClickGyroPermission
  \/ GyroPermissionSettled
  \/ DeviceOrientationEvent
  \/ GyroDetectTimeout
  \/ PointerDown
  \/ PointerMove
  \/ PointerUp
  \/ CanvasClick
  \/ ClickReset
  \/ animate

SpecTap == Init /\ [][TapNext]_vars

PointerNext == PointerDown \/ PointerMove \/ PointerUp

\* The pointer rig: the fallback backend without tracking, the orientation
\* activation, the pointer, wheel and touch handlers of the canvas, and reset.
RigNext ==
  \/ InitSupportChecked
  \/ ClickSkipAR
  \/ \E i \in Slots : CameraGranted(i)
  \/ \E i \in Slots : CameraRejected(i)
  \/ \E i \in Slots : CameraPlaySettled(i)
  \/ ClickGyroPermission
  \/ GyroPermissionSettled
  \/ DeviceOrientationEvent
  \/ GyroDetectTimeout
  \/ PointerDown
  \/ PointerDownRight
  \/ PointerMove
  \/ PointerUp
  \/ Wheel
  \/ TouchStart
  \/ TouchMove
  \/ TouchEnd
  \/ ClickReset

SpecRig == Init /\ [][RigNext]_vars
SpecPointer == Init /\ [][Next \/ PointerNext]_vars

\* ================================================================ claims
placement == <<pipePlaced, pipeGroup, excavationGroup, placedPosition, placedMarkers,
               scenePipes, sceneExc, sceneMarkers>>

TrackedReticleVisible == reticle # Null /\ Get(reticle).visible
FallbackReticleVisible ==
  fallbackReticle # Null /\ Get(fallbackReticle).visible /\ sceneFbReticles > 0
FallbackActive ==
  fallbackMode /\ fallbackReticle # Null /\ sceneFbReticles > 0 /\ fallbackAnimateRunning

\* No stretch of init, startARSession or startFallbackMode is suspended and
\* no timer is pending.
Quiescent ==
  /\ initPc = "done"
  /\ arPc \in {"idle", "running", "failed"}
  /\ ~arTimer
  /\ \A i \in Slots : fbPc[i] = "idle"

\* A step of the hand-off: the 'end' handler, or a resumption of the
\* startFallbackMode call it made.
HandoffStep ==
  \/ onSessionEnd
  \/ \E i \in Slots :
       /\ fbSrc[i] = "end"
       /\ (CameraGranted(i) \/ CameraRejected(i) \/ CameraPlaySettled(i))

\* C1: when the session's 'end' event fires while a placement exists, no step
\* of the hand-off changes pipePlaced, the placed model's pose, the excavation
\* group's pose, the base position or the placed objects in the scene,
\* fallbackMode is true from the handler on, and when the hand-off completes
\* the fallback loop runs.
C1_HandoffPreservesPlacement ==
  [][ (HandoffStep /\ pipePlaced) =>
        /\ UNCHANGED placement
        /\ fallbackMode'
        /\ (lastOp' = <<"startFallbackMode", "end">> => fallbackAnimateRunning')
    ]_vars

C1_Witness ==
  /\ lastOp = <<"startFallbackMode", "end">>
  /\ pipePlaced
  /\ FallbackActive
  /\ Get(pipeGroup).rotY = 90
  /\ Get(pipeGroup).position # Get(placedPosition)

\* C2: once the tracked session has terminated and nothing is pending any
\* more, the fallback backend is active (fallbackMode, a fallback reticle in
\* the scene, the fallback loop running): the user is never left with no
\* backend.
C2_NeverStranded == (xrPlat = "ended" /\ Quiescent) => FallbackActive

CommitTrigger == onARSelect \/ ClickPlace \/ CanvasClick

NoCandidate ==
  IF fallbackMode
  THEN fallbackReticle = Null
  ELSE ~TrackedReticleVisible

C6_NoReticleWhenPlaced ==
  pipePlaced => (~TrackedReticleVisible /\ ~FallbackReticleVisible)

\* C7: a tracked frame or a fallback render tick that runs while a placement
\* exists leaves both reticles (pose and visibility) unchanged.
C7_FramesFrozenWhenPlaced ==
  [][ ((onXRFrame \/ animate) /\ pipePlaced) => UNCHANGED <<reticle, fallbackReticle>> ]_vars

\* A tick ran on a placed scene whose visible fallback reticle the camera
\* would have moved.
C7_Witness ==
  /\ lastOp = <<"animate", "">>
  /\ pipePlaced
  /\ FallbackReticleVisible
  /\ updateFallbackReticle(camera, Get(fallbackReticle).position)
       # Get(fallbackReticle).position

\* What a backend acquisition would change: mode, session, camera stream,
\* orientation activation, loops, and the requests issued.
backend == <<fallbackMode, xrSession, xrPlat, arPc, arTimer, hitTestSource, xrLoop,
             fallbackAnimateRunning, fallbackControlsReady, fbPc, cameraVideo,
             camRequests, videoElems, useDeviceOrientation, gyro, permRequests,
             xrEnabled, overlayShown>>

\* C8: a reset leaves no placement (pipePlaced false; no placed model,
\* excavation group, marker or base position) and leaves the backend state
\* and the requests issued unchanged.
C8_ResetKeepsBackend ==
  [][ ClickReset =>
        /\ ~pipePlaced'
        /\ pipeGroup' = Null /\ excavationGroup' = Null /\ placedPosition' = Null
        /\ placedMarkers' = 0 /\ sceneMarkers' = 0 /\ scenePipes' = 0 /\ sceneExc' = 0
        /\ UNCHANGED backend
    ]_vars

C8_Witness ==
  /\ lastOp = <<"btnReset", "placed">>
  /\ fallbackMode
  /\ cameraVideo
  /\ useDeviceOrientation

\* The tracked backend is the active one: the session handle is set and
\* fallback mode is off.
TrackedMode == xrSession = "session" /\ ~fallbackMode

\* C9: a reset in fallback mode leaves a fresh visible fallback reticle in the
\* scene; a reset in tracked mode re-arms the tracked reticle only (no
\* placement is left to stop the frame loop from showing it) and adds no
\* fallback reticle to the scene.
C9_ResetReticleOfActiveBackend ==
  [][ ClickReset =>
        /\ fallbackMode =>
             (fallbackReticle' = Some(createFallbackReticle) /\ sceneFbReticles' = 1)
        /\ TrackedMode =>
             (~pipePlaced' /\ UNCHANGED <<fallbackReticle, sceneFbReticles>>)
    ]_vars

\* C10: fallbackMode never goes back to false, and while it is true the
\* session handle does not go from null to non-null and no session is
\* requested.
C10_OneWay ==
  [][ fallbackMode =>
        /\ fallbackMode'
        /\ (xrSession = "null" => xrSession' = "null")
        /\ (arPc # "reqSession" => arPc' # "reqSession")
    ]_vars

C10_Witness ==
  /\ fallbackMode
  /\ xrPlat = "ended"
  /\ xrSession = "null"
  /\ lastOp = <<"btnReset", "placed">>

\* A tracked session the platform granted is held by the program and has not
\* ended.
TrackedSessionLive == xrSession = "session" /\ xrPlat = "live"

\* C11: in no reachable state are a live tracked session (xrSession non-null,
\* the session not ended) and fallback mode both in effect.
C11_OneBackendAtATime == ~(TrackedSessionLive /\ fallbackMode)

\* C12: the tracked frame loop and the fallback render loop never run
\* together, and the 'end' handler leaves the tracked loop cleared in the very
\* step in which it calls startFallbackMode, so no frame has both backends
\* writing a reticle (onXRFrame runs only with the tracked loop set, animate
\* only with the fallback loop started).
C12_LoopsExclusive ==
  /\ [](~(xrLoop /\ fallbackAnimateRunning))
  /\ [][ onSessionEnd => (~xrLoop' /\ fallbackMode') ]_vars

\* The hand-off completed after the tracked loop had been running.
C12_Witness ==
  /\ lastOp = <<"startFallbackMode", "end">>
  /\ reticle # Null
  /\ fallbackAnimateRunning
  /\ ~xrLoop

\* C13: under every interleaving of startFallbackMode invocations the render
\* loop is started at most once, the controls are set up at most once, never
\* more than one fallback reticle is in the scene, and once every invocation
\* has run to its end exactly one is.
C13_StartFallbackIdempotent ==
  /\ animateLoops <= 1
  /\ controlSetups <= 1
  /\ sceneFbReticles <= 1
  /\ (fallbackMode /\ \A i \in Slots : fbPc[i] = "idle") =>
       /\ animateLoops = 1 /\ fallbackAnimateRunning
       /\ controlSetups = 1 /\ fallbackControlsReady
       /\ sceneFbReticles = 1 /\ fallbackReticle # Null

\* Two invocations were suspended on the camera at once (each issued its own
\* getUserMedia) and both have run to their end.
C13_Witness ==
  /\ camRequests >= 2
  /\ \A i \in Slots : fbPc[i] = "idle"
  /\ lastOp = <<"startFallbackMode", "call">>
  /\ animateLoops = 1

\* C14: when the camera request rejects, startFallbackMode still runs to its
\* end: the fallback reticle is created and in the scene, the render loop
\* runs, placement is enabled (with no placement yet, the reticle that the
\* place button and a tap read is there and visible), and cameraVideo stays
\* null.
C14_CameraFailureNonFatal ==
  [][ (\E i \in Slots : CameraRejected(i)) =>
        /\ fallbackMode'
        /\ fallbackReticle' # Null /\ sceneFbReticles' = 1
        /\ fallbackAnimateRunning'
        /\ ~pipePlaced' => Get(fallbackReticle').visible
        /\ ~cameraVideo'
        /\ \A i \in Slots : fbPc'[i] = "idle"
    ]_vars

\* A placement made with the place button in a fallback mode whose only
\* camera request was rejected.
C14_Witness ==
  /\ lastOp = <<"btnPlace", "placed">>
  /\ fallbackMode /\ pipePlaced
  /\ camRequests = 1 /\ ~cameraVideo

\* C15: a forward-offset input on a placement sets the model's z to the base
\* position's z minus the value just entered, whatever offsets were entered
\* before; with base (0, 0, 0) and yaw 0 the value -200 mm gives z = 0.2 m.
C15_OffsetAbsolute ==
  /\ [][ (DistanceInput /\ pipeGroup # Null /\ placedPosition # Null) =>
           \E mm \in DistInputs :
             /\ lastOp' = <<"distance", ToString(mm)>>
             /\ Get(pipeGroup').position[3] = Get(placedPosition')[3] - mm
       ]_vars
  /\ []( ( /\ lastOp = <<"distance", "-200">>
           /\ pipeGroup # Null
           /\ placedPosition = Some(<<0, 0, 0>>) )
         => Get(pipeGroup).position[3] = 200 )

\* The offset -200 mm entered on a placement with base (0, 0, 0) and yaw 0.
C15_Witness ==
  /\ lastOp = <<"distance", "-200">>
  /\ pipePlaced /\ pipeGroup # Null
  /\ placedPosition = Some(<<0, 0, 0>>)
  /\ Get(pipeGroup).rotY = 0
  /\ Get(pipeGroup).position = <<0, 0, 200>>

\* A placement exists and a yaw or forward-offset input was the last handler.
SliderJustMoved ==
  /\ pipePlaced /\ pipeGroup # Null /\ placedPosition # Null
  /\ lastOp[1] \in {"rotation", "distance"}

\* C16: after any yaw and forward-offset inputs, in either order, the placed
\* model is at basePosition + forward(yaw) * (-m/1000) for the offset m in
\* effect.
C16_EffectivePosition ==
  SliderJustMoved =>
    LET p == Get(pipeGroup).position
        b == Get(placedPosition)
        f == forward(Get(pipeGroup).rotY)
    IN \E m \in DistInputs :
         /\ lastOp[1] = "distance" => lastOp[2] = ToString(m)
         /\ p = <<b[1] - f[1] * m, b[2] - f[2] * m, b[3] - f[3] * m>>

\* What a slider input must leave alone: whether a placement exists, the base
\* position, the markers, the scene membership, the reticles and the backend.
sliderFrame ==
  <<pipePlaced, placedPosition, placedMarkers, scenePipes, sceneExc, sceneMarkers,
    retVars, backend, camera, deviceOrientation>>

\* The group o keeps its position (samePos) or its yaw (sameYaw) from this
\* state to the next, and stays null if it is null.
samePos(o, oNext) ==
  IF o = Null THEN oNext = Null
  ELSE oNext # Null /\ Get(oNext).position = Get(o).position
sameYaw(o, oNext) ==
  IF o = Null THEN oNext = Null
  ELSE oNext # Null /\ Get(oNext).rotY = Get(o).rotY
sameXY(o, oNext) ==
  IF o = Null THEN oNext = Null
  ELSE /\ oNext # Null
       /\ Get(oNext).position[1] = Get(o).position[1]
       /\ Get(oNext).position[2] = Get(o).position[2]

\* C17: a yaw input leaves the position of the model and of the excavation
\* group and the base position unchanged; a forward-offset input leaves their
\* yaw, their x and y and the base position unchanged; neither changes
\* pipePlaced or the backend state; both change nothing at all when no
\* placement exists.
C17_SlidersPure ==
  /\ [][ RotationInput =>
           /\ samePos(pipeGroup, pipeGroup')
           /\ samePos(excavationGroup, excavationGroup')
           /\ UNCHANGED sliderFrame
           /\ ~pipePlaced => UNCHANGED <<pipeGroup, excavationGroup>>
       ]_vars
  /\ [][ DistanceInput =>
           /\ sameYaw(pipeGroup, pipeGroup') /\ sameXY(pipeGroup, pipeGroup')
           /\ sameYaw(excavationGroup, excavationGroup')
           /\ sameXY(excavationGroup, excavationGroup')
           /\ UNCHANGED sliderFrame
           /\ ~pipePlaced => UNCHANGED <<pipeGroup, excavationGroup>>
       ]_vars

\* A yaw input made on a placement that stands off its base position.
C17_Witness ==
  /\ lastOp = <<"rotation", "0">>
  /\ pipePlaced /\ pipeGroup # Null /\ excavationGroup # Null
  /\ Get(pipeGroup).position[3] = Get(placedPosition)[3] + 200
  /\ Get(excavationGroup).position = Get(pipeGroup).position

\* A fallback render tick that calls updateFallbackReticle: the camera it
\* reads is the one the tick leaves (orientation applied first).
GroundFrame ==
  animate /\ fallbackReticle # Null /\ Get(fallbackReticle).visible /\ ~pipePlaced

\* The forward direction of camera c points downward (D.y < -0.01).
Downward(c) == c.v[2] * 100 < -c.n

\* The forward ray of a downward camera c meets the ground closer than 30 m:
\* the distance along the unit direction is P.y / -D.y.
Near(c) == c.position[2] * c.n < 30000 * (-c.v[2])

\* Position g is at height 0 on the forward ray of camera c.
OnGroundRay(c, g) ==
  /\ g[2] = 0
  /\ (g[1] - c.position[1]) * (-c.v[2]) = c.v[1] * c.position[2]
  /\ (g[3] - c.position[3]) * (-c.v[2]) = c.v[3] * c.position[2]

\* C18: for a downward camera whose ground hit is closer than 30 m the reticle
\* is put where the forward ray meets the plane y = 0, P + D * (-P.y / D.y);
\* looking straight down from height 1.6 m that is the camera's own (x, z).
C18_GroundProjectionDownward ==
  [][ (GroundFrame /\ Downward(camera') /\ Near(camera')) =>
        /\ OnGroundRay(camera', Get(fallbackReticle').position)
        /\ (camera'.v = <<0, -1, 0>> /\ camera'.position[2] = 1600) =>
             Get(fallbackReticle').position =
               <<camera'.position[1], 0, camera'.position[3]>>
    ]_vars

\* A tick with the camera at height 1.6 m looking straight down left the
\* reticle under the camera, moved there from where it was created.
C18_Witness ==
  /\ lastOp = <<"animate", "">>
  /\ ~pipePlaced /\ FallbackReticleVisible
  /\ camera = [position |-> <<0, 1600, 0>>, v |-> <<0, -1, 0>>, n |-> 1]
  /\ Get(fallbackReticle).position = <<0, 0, 0>>

\* C19: for a level or upward camera the reticle is put at height 0, exactly
\* 3 m from the camera's (x, z) along the horizontal component of the forward
\* direction.
C19_LevelOrUpwardThreeMetres ==
  [][ (GroundFrame /\ ~Downward(camera')) =>
        LET g == Get(fallbackReticle').position
            dx == g[1] - camera'.position[1]
            dz == g[3] - camera'.position[3]
        IN /\ g[2] = 0
           /\ dx * dx + dz * dz = 3000 * 3000
           /\ dx * camera'.v[3] = dz * camera'.v[1]
           /\ dx * camera'.v[1] + dz * camera'.v[3] > 0
    ]_vars

\* C20: for a downward camera whose ground hit is 30 m away or more the
\* update is discarded: the reticle keeps the position of the prior frame.
C20_CutoffKeepsPriorPosition ==
  [][ (GroundFrame /\ Downward(camera') /\ ~Near(camera')) =>
        fallbackReticle' = fallbackReticle
    ]_vars

\* A tick with the camera looking so shallowly down that the ground is met
\* beyond 30 m, the reticle still where an earlier frame had put it.
C20_Witness ==
  /\ lastOp = <<"animate", "">>
  /\ ~pipePlaced /\ FallbackReticleVisible
  /\ camera = [position |-> <<0, 1600, 0>>, v |-> <<0, -80, -1599>>, n |-> 1601]
  /\ Get(fallbackReticle).position = <<1600, 0, -800>>

\* C21: a 'deviceorientation' event whose alpha is null changes neither the
\* stored orientation nor the orientation mode nor the camera, whether the
\* detection listener or the sample listener receives it.
C21_NullAlphaIgnored ==
  [][ (DeviceOrientationWide /\ lastOp' = <<"deviceorientation", "null">>) =>
        UNCHANGED <<deviceOrientation, useDeviceOrientation, gyro, camera>>
    ]_vars

\* A null-alpha event received by the sample listener after a valid sample
\* had been stored.
C21_Witness ==
  /\ lastOp = <<"deviceorientation", "null">>
  /\ gyro = "active" /\ useDeviceOrientation
  /\ deviceOrientation = [v |-> <<2, -2, -1>>, n |-> 3]

\* C22: orientation mode turns on only in the step of a granted permission or
\* of a valid sample received by the detection listener; after a denied or
\* throwing request or the detection timeout it is off and stays off; once on
\* it stays on.
C22_OrientationActivation ==
  /\ [][ (~useDeviceOrientation /\ useDeviceOrientation') =>
           \/ gyro = "asking" /\ lastOp' = <<"gyroPermission", "granted">>
           \/ gyro = "detect" /\ lastOp' = <<"deviceorientation", "sample">>
       ]_vars
  /\ [][ lastOp' \in {<<"gyroPermission", "denied">>, <<"gyroPermission", "throws">>} =>
           (gyro' = "off" /\ ~useDeviceOrientation') ]_vars
  /\ [][ GyroDetectTimeout => (gyro' = "off" /\ ~useDeviceOrientation') ]_vars
  /\ [][ gyro = "off" => (gyro' = "off" /\ ~useDeviceOrientation') ]_vars
  /\ [][ useDeviceOrientation => useDeviceOrientation' ]_vars

\* After the detection or the permission failed, a pointer drag has moved the
\* camera.
C22_Witness ==
  /\ gyro = "off" /\ ~useDeviceOrientation
  /\ isDragging
  /\ camera = [position |-> <<1000, 4000, 3000>>, v |-> <<0, -4, -3>>, n |-> 5]

\* C23: while orientation mode is on, the pointer-down, pointer-move and wheel
\* handlers leave the orbit angles, the pan target, the orbit distance and the
\* camera pose unchanged, and a pinch changes none of them either (only the
\* field of view); while it is off, a pinch leaves the orbit angles, the pan
\* target and the field of view unchanged (only the orbit distance moves).
C23_RigModesExclusive ==
  [][ /\ (useDeviceOrientation /\ (PointerDown \/ PointerDownRight \/ PointerMove \/ Wheel)) =>
           UNCHANGED <<cameraAngleH, cameraAngleV, panTarget, cameraDistance, camera, fov>>
      /\ (useDeviceOrientation /\ TouchMove) =>
           UNCHANGED <<cameraAngleH, cameraAngleV, panTarget, cameraDistance, camera>>
      /\ (~useDeviceOrientation /\ TouchMove) =>
           UNCHANGED <<cameraAngleH, cameraAngleV, panTarget, fov>>
    ]_vars

\* Orientation mode is on, a wheel event was just ignored, and pinches have
\* moved the orbit distance (before the activation) and the field of view
\* (after it).
C23_Witness ==
  /\ useDeviceOrientation
  /\ lastOp = <<"wheel", "ignored">>
  /\ cameraDistance = 100
  /\ fov = 2000

\* C24: the vertical orbit angle stays within [0.1, 1.4] rad, the orbit
\* distance within [0.5, 30] and the field of view within [20, 100] degrees.
C24_RigClamped ==
  /\ 10 <= cameraAngleV /\ cameraAngleV <= 140
  /\ 50 <= cameraDistance /\ cameraDistance <= 3000
  /\ 2000 <= fov /\ fov <= 10000

\* All three quantities sit at a clamp bound, the field of view after a pinch
\* whose fingers met (a division by zero).
C24_Witness ==
  /\ cameraAngleV = 140
  /\ cameraDistance = 50
  /\ fov = 10000
  /\ lastPinchDist = 0
  /\ useDeviceOrientation

\* The frame steps the hit-test adapter acts on: the tracked loop runs a frame
\* with a hit-test source and no placement.
adapterFrame(hits, poseOk) == xrFrame(hits, poseOk) /\ hitTestSource /\ ~pipePlaced

\* C25 as stated: after every such frame the reticle is visible at the first
\* candidate's pose when the result list is non-empty and hidden when it is
\* empty, and nothing else changes.
C25_FrameSetsReticle ==
  [][ \A hits \in HitLists, poseOk \in BOOLEAN :
        adapterFrame(hits, poseOk) =>
          /\ Len(hits) > 0 => reticle' = Some([visible |-> TRUE, position |-> hits[1]])
          /\ Len(hits) = 0 => (reticle' # Null /\ ~Get(reticle').visible)
          /\ UNCHANGED <<initVars, uiVars, xrVars, fbVars, fallbackReticle, sceneFbReticles,
                         placeVars, assetVars, camVars>>
    ]_vars

\* C25, amended: a non-empty list makes the reticle visible at the first
\* candidate's pose when the platform yields that pose, and leaves the reticle
\* as it was when it yields none; an empty list hides the reticle where it is;
\* nothing else changes.
C25_FrameSetsReticleWhenPosed ==
  [][ \A hits \in HitLists, poseOk \in BOOLEAN :
        adapterFrame(hits, poseOk) =>
          /\ (Len(hits) > 0 /\ poseOk) =>
               reticle' = Some([visible |-> TRUE, position |-> hits[1]])
          /\ (Len(hits) > 0 /\ ~poseOk) => UNCHANGED reticle
          /\ Len(hits) = 0 =>
               reticle' = Some([visible |-> FALSE, position |-> Get(reticle).position])
          /\ UNCHANGED <<initVars, uiVars, xrVars, fbVars, fallbackReticle, sceneFbReticles,
                         placeVars, assetVars, camVars>>
    ]_vars

\* A frame with candidates but no pose has left the reticle hidden.
C25_Witness ==
  /\ lastOp = <<"onXRFrame", "nopose">>
  /\ hitTestSource /\ ~pipePlaced
  /\ reticle # Null /\ ~Get(reticle).visible

C28_ExcavationFollowsModel ==
  pipePlaced =>
    /\ pipeGroup # Null /\ excavationGroup # Null
    /\ Get(excavationGroup).position = Get(pipeGroup).position
    /\ Get(excavationGroup).rotY = Get(pipeGroup).rotY

\* The model was turned and moved forward, then replaced, and the excavation
\* was rebuilt last.
C28_Witness ==
  /\ pipePlaced /\ pipeGroup # Null
  /\ Get(pipeGroup).rotY = 90
  /\ placedPosition = Some(Get(pipeGroup).position)
  /\ Get(pipeGroup).position[3] = -3500
  /\ assetLoads = 1
  /\ lastOp = <<"rebuildExcavation", "">>

C30_OneReticleVisible == ~(TrackedReticleVisible /\ FallbackReticleVisible)

\* A canvas click that finds the fallback backend with a reticle and no
\* placement.
clickCanCommit == fallbackMode /\ ~pipePlaced /\ fallbackReticle # Null

\* C31: in pointer mode a press clears the drag flag, a move of more than the
\* threshold while pressed sets it, nothing else sets it and only a press
\* clears it; a click with the flag set creates no placement, a click without
\* it places at the fallback reticle's position; in orientation mode every
\* click places there, whatever the flag.
C31_DragIsNotCommit ==
  /\ [][ (PointerDown /\ ~useDeviceOrientation) => ~wasDragged' ]_vars
  /\ [][ \A d \in DragDeltas :
           (pointermove(d[1], d[2], TRUE) /\ ~useDeviceOrientation /\ isDragging)
             => wasDragged' ]_vars
  /\ [][ (~wasDragged /\ wasDragged') =>
           (~useDeviceOrientation /\ isDragging
            /\ \E d \in DragDeltas : pointermove(d[1], d[2], TRUE)) ]_vars
  /\ [][ (wasDragged /\ ~wasDragged') => (PointerDown /\ ~useDeviceOrientation) ]_vars
  /\ [][ (CanvasClick /\ ~useDeviceOrientation /\ wasDragged) => UNCHANGED placement ]_vars
  /\ [][ (CanvasClick /\ clickCanCommit /\ (useDeviceOrientation \/ ~wasDragged)) =>
           /\ pipePlaced'
           /\ placedPosition' = Some(Get(fallbackReticle).position)
           /\ pipeGroup' = Some([position |-> Get(fallbackReticle).position, rotY |-> 0])
       ]_vars

\* A click at the end of a drag in pointer mode was ignored although the
\* backend, the reticle and the missing placement would have allowed a commit.
C31_Witness ==
  /\ lastOp = <<"canvasClick", "ignored">>
  /\ ~useDeviceOrientation /\ wasDragged /\ isDragging = FALSE
  /\ clickCanCommit

\* C32: the flag is set whenever the scanner runs, and scanner.start() is
\* never issued while the scanner is starting or running.
C32_FlagTracksScanner ==
  /\ scanner = "running" => isScanning
  /\ lastOp # <<"startScan", "busy">>

\* C33: a rejected scanner.start() clears the flag when it is rethrown and the
\* next startScan() issues a new start; and after a valid code is decoded the
\* result callback has been invoked and isScanning eventually is false, also
\* when scanner.stop() rejects.
C33_StartFailureRecoverable ==
  /\ [][/\ lastOp' = <<"startScan", "rethrown">> => ~isScanning' /\ scanner' = "stopped"
        /\ (lastOp = <<"startScan", "rethrown">> /\ scanStarts' # scanStarts)
             => (lastOp' = <<"startScan", "issued">> /\ scanner' = "starting" /\ isScanning')
        /\ lastOp' = <<"decoded", "valid">> => scanResults' = scanResults + 1]_vars
  /\ (lastOp = <<"decoded", "valid">>) ~> ~isScanning

\* A second start is pending after the first was rejected and rethrown.
C33_Witness ==
  /\ scanStarts = 2
  /\ scanStops = 0
  /\ scanner = "starting"
  /\ isScanning

\* C34: a pipe of type 'service' or 'main' that is encoded and decoded comes
\* back with its id, type, diameter, length, depth, slope and material and with
\* the data set's excavation parameters; encode of an id the data set does
\* not have is null; decode of a text without the prefix, or with a payload
\* that is not base64 JSON, is null.
C34_CodecRoundTrip ==
  /\ (codecCall.op = "roundTrip"
        /\ get(codecCall.pipe, Lit.type) \in {JsStr(Lit.service), JsStr(Lit.main)})
       => /\ codecCall.out.t = "obj"
          /\ \A key \in {Lit.id, Lit.type, Lit.diameter, Lit.length, Lit.depth,
                         Lit.slope, Lit.material} :
               get(codecCall.out, key) = get(codecCall.pipe, key)
          /\ get(codecCall.out, Lit.excavation) = currentData.excavation
  /\ codecCall.op = "encodeMissing" => codecCall.qr = JsNull
  /\ codecCall.op = "decodeForeign" => codecCall.out = JsNull

\* C35: after create() with a legacy length L and no lengthFront, the total
\* length is L, lengthFront is round(L/2), and the volume is
\* width * depth * L (over 1e9).
C35_LegacySplitLossless ==
  lastOp = <<"create", "legacy">> =>
    LET L == Get(excArg.length)
    IN /\ getTotalLength = L
       /\ excParams.lengthFront = (L + 1) \div 2
       /\ getVolume = excArg.width * excArg.depth * L

\* C36 as stated: a page loaded by the automatic reload with dependencies
\* still missing schedules no reload and goes on with init; a load with all
\* dependencies present leaves the retry flag cleared.
C36_ReloadOnce ==
  /\ (page.cause = "auto" /\ page.missing # {}) => (~reloadTimer /\ page.result = "init")
  /\ page.missing = {} => ~retryFlag

\* C36, amended: a page loaded by the automatic reload schedules no reload;
\* it goes on with init when only loaders are missing and stops when Three.js
\* itself is missing; a load with all dependencies present leaves the retry
\* flag cleared.
C36_ReloadOnceThreePresent ==
  /\ page.cause = "auto" => ~reloadTimer
  /\ (page.cause = "auto" /\ page.missing \notin {{}, {"THREE"}})
       => (page.result = "init" /\ ~retryFlag)
  /\ (page.cause = "auto" /\ page.missing = {"THREE"}) => page.result = "stopped"
  /\ page.missing = {} => (~retryFlag /\ page.result = "init")

\* The automatic reload found loaders still missing.
C36_Witness ==
  /\ page.cause = "auto"
  /\ page.missing = {"GLTFLoader", "FBXLoader"}
  /\ lastOp = <<"pageLoad", "auto">>
====
